---- MODULE Spec2Model ----
(***************************************************************************)
(* Model of the Mafia game engine: MafiaGame (src/src/game.py) driving     *)
(* Player (src/src/player.py) through setup, day and night phases until    *)
(* check_game_over reports a winner.                                       *)
(*                                                                         *)
(* A player is identified by its seat (its index in MafiaGame.players);    *)
(* the seat number also stands for the unique player_name.  An agent reply *)
(* is represented by what is left of it after sanitize_model_response:     *)
(* nothing ("blank"), prose without a command the phase accepts ("text",   *)
(* which is also what the generator-failure sentinel is), or a command     *)
(* whose captured token tok is the name of seat tok (0: the name of no     *)
(* player of the roster).  A stored message (an entry of messages or of    *)
(* discussion_history) is represented by the phase in which it was given.  *)
(* Prompt construction is not modelled: the configuration is taken to      *)
(* define every setting the prompt code reads.                             *)
(***************************************************************************)
EXTENDS Integers, Sequences, FiniteSets, TLC

\* Settings of config.py, read from the environment.
PLAYERS_PER_GAME == 5   \* environment PLAYERS_PER_GAME (default 8)
MAX_ROUNDS == 4         \* environment MAX_ROUNDS (default 20)

\* Bounds of the exploration.
MaxMafia == 3       \* MAFIA_COUNT ranges over 0..MaxMafia
MaxVocal == 2       \* at most this many of the replies to the night, discussion
                    \* and voting prompts of one game are not blank
PoolSize == 5       \* the pool player_names has this many names (39 in game.py),
                    \* no fewer than PLAYERS_PER_GAME
MaxText == 3        \* the sanitizer is tried on the texts of at most this many pieces
MaxReply == 3       \* the replies followed through the engine have at most this many pieces
MaxDead == 1        \* the extractors are tried on rosters with at most this many dead

VARIABLES
    cfg,                 \* config: PLAYERS_PER_GAME, MAFIA_COUNT, DOCTOR_COUNT
    players,             \* MafiaGame.players: seat -> [role, alive, protected]
    round_number,        \* MafiaGame.round_number
    phase,               \* MafiaGame.phase
    current_round_data,  \* MafiaGame.current_round_data
    rounds_data,         \* MafiaGame.rounds_data
    discussion_history,  \* MafiaGame.discussion_history, one entry per appended message
    pc,                  \* position of run_game
    game_over,           \* local of run_game
    winner,              \* local of run_game, "None" for Python's None
    alive_players,       \* local alive_players of the running phase
    idx,                 \* position of the running loop over players
    mafia_targets,       \* local of execute_night_phase
    votes,               \* local of execute_day_phase: <<voter, target>> in insertion order
    eliminated_player,   \* local of execute_day_phase, 0 for None
    last_words,          \* local of execute_day_phase: the call of get_last_words
    confirmation_votes,  \* local of get_confirmation_vote, as its last call left it
    probe,               \* the last call of an extractor: its arguments and result
    roles,               \* local of setup_game: the shuffled list of roles
    names,               \* the player_name of the players created so far, by seat
    executed,            \* history: the phases executed so far, in order
    prompted,            \* history: the calls of Player.get_response made since the
                         \* current round record was created, <<seat, prompt>>
    vocal                \* history: number of non-blank replies so far

vars == <<cfg, players, round_number, phase, current_round_data, rounds_data,
          discussion_history, pc, game_over, winner, alive_players, idx,
          mafia_targets, votes, eliminated_player, last_words, confirmation_votes, probe,
          roles, names, executed, prompted, vocal>>

\* The locals of run_game and of the phase being executed
result_vars == <<game_over, winner>>
night_vars == <<mafia_targets>>
day_vars == <<votes, eliminated_player, last_words, confirmation_votes>>
\* What only the specifications of single functions change
unit_vars == <<probe, roles, names>>

------------------------------------------------------------------------------
\* Configuration and replies

Configs ==
    {c \in [players : {PLAYERS_PER_GAME}, mafia : 0..MaxMafia, doctor : {0, 1}] :
        c.mafia + c.doctor < c.players}

Blank == [kind |-> "blank", tok |-> 0]
Text == [kind |-> "text", tok |-> 0]

Tokens == 0..cfg.players

NightReplies(r) ==
    {Blank, Text} \cup {[kind |-> IF r = "Mafia" THEN "kill" ELSE "protect", tok |-> t] : t \in Tokens}
DiscussionReplies == {Blank, Text}
VotingReplies == {Blank, Text} \cup {[kind |-> "vote", tok |-> t] : t \in Tokens}
ConfirmationReplies == {Blank, Text}

\* No extractor has been called
NoProbe == [self |-> 0, call |-> "none", text |-> <<>>, token |-> <<>>, target |-> 0]

\* confirmation_votes = {"agree": [], "disagree": []}
NoVotes == [agree |-> <<>>, disagree |-> <<>>]

\* last_words before get_last_words is called: no player (0) was asked
NoLastWords == [player |-> 0, alive |-> FALSE, reply |-> Blank]

\* The replies an agent may still give under the bound MaxVocal.
Allowed(S) == {r \in S : r.kind # "blank" => vocal < MaxVocal}
Spoken(r) == IF r.kind = "blank" THEN vocal ELSE vocal + 1

------------------------------------------------------------------------------
\* Roster

Seats == DOMAIN players

SeqOfSeats(P(_)) ==
    LET F[i \in 0..Len(players)] ==
            IF i = 0 THEN <<>>
            ELSE IF P(i) THEN Append(F[i - 1], i) ELSE F[i - 1]
    IN F[Len(players)]

\* Mutant of get_alive_players: the whole roster, the dead included.
get_alive_players_All == [i \in 1..Len(players) |-> i]

mafia_players == SeqOfSeats(LAMBDA p : players[p].role = "Mafia")
villager_players == SeqOfSeats(LAMBDA p : players[p].role = "Villager")
\* doctor_player is overwritten by every Doctor created: the last one stays; 0 is None
doctor_player ==
    LET ds == {p \in Seats : players[p].role = "Doctor"}
    IN IF ds = {} THEN 0 ELSE CHOOSE p \in ds : \A q \in ds : q <= p

get_alive_players == SeqOfSeats(LAMBDA p : players[p].alive)

Range(s) == {s[i] : i \in DOMAIN s}

NewRoundData(n) ==
    [round_number |-> n, messages |-> <<>>, actions |-> <<>>,
     eliminations |-> <<>>, eliminated_by_vote |-> <<>>,
     targeted_by_mafia |-> <<>>, protected_by_doctor |-> <<>>,
     outcome |-> <<>>, vote_counts |-> <<>>, confirmation_votes |-> NoVotes,
     day_data |-> FALSE]

------------------------------------------------------------------------------
\* check_game_over

mafia_alive == Cardinality({p \in Range(mafia_players) : players[p].alive})
villagers_alive == Cardinality({p \in Range(villager_players) : players[p].alive})
doctor_alive == IF doctor_player # 0 /\ players[doctor_player].alive THEN 1 ELSE 0

\* Mutants of check_game_over: parity is not enough for the Mafia (">" for ">=");
\* the round cap is applied one round late (">" for ">=").
check_game_over_StrictParity ==
    IF mafia_alive = 0 THEN <<TRUE, "Villagers">>
    ELSE IF mafia_alive > villagers_alive + doctor_alive THEN <<TRUE, "Mafia">>
    ELSE IF round_number >= MAX_ROUNDS THEN
        IF villagers_alive + doctor_alive > mafia_alive
        THEN <<TRUE, "Villagers">> ELSE <<TRUE, "Mafia">>
    ELSE <<FALSE, "None">>

check_game_over_LateCap ==
    IF mafia_alive = 0 THEN <<TRUE, "Villagers">>
    ELSE IF mafia_alive >= villagers_alive + doctor_alive THEN <<TRUE, "Mafia">>
    ELSE IF round_number > MAX_ROUNDS THEN
        IF villagers_alive + doctor_alive > mafia_alive
        THEN <<TRUE, "Villagers">> ELSE <<TRUE, "Mafia">>
    ELSE <<FALSE, "None">>

\* Mutant of check_game_over: at the cap the Doctor is not counted with the
\* Villagers.
check_game_over_CapIgnoresDoctor ==
    IF mafia_alive = 0 THEN <<TRUE, "Villagers">>
    ELSE IF mafia_alive >= villagers_alive + doctor_alive THEN <<TRUE, "Mafia">>
    ELSE IF round_number >= MAX_ROUNDS THEN
        IF villagers_alive > mafia_alive
        THEN <<TRUE, "Villagers">> ELSE <<TRUE, "Mafia">>
    ELSE <<FALSE, "None">>

\* Mutant of check_game_over: parity does not end the game, only the cap does.
check_game_over_NoParity ==
    IF mafia_alive = 0 THEN <<TRUE, "Villagers">>
    ELSE IF round_number >= MAX_ROUNDS THEN
        IF villagers_alive + doctor_alive > mafia_alive
        THEN <<TRUE, "Villagers">> ELSE <<TRUE, "Mafia">>
    ELSE <<FALSE, "None">>

\* MafiaGame.check_game_over, "None" for Python's None
check_game_over ==
    IF mafia_alive = 0 THEN <<TRUE, "Villagers">>
    ELSE IF mafia_alive >= villagers_alive + doctor_alive THEN <<TRUE, "Mafia">>
    ELSE IF round_number >= MAX_ROUNDS THEN
        IF villagers_alive + doctor_alive > mafia_alive
        THEN <<TRUE, "Villagers">> ELSE <<TRUE, "Mafia">>
    ELSE <<FALSE, "None">>

------------------------------------------------------------------------------
Init ==
    /\ cfg \in Configs
    /\ players = <<>>
    /\ round_number = 0
    /\ phase = "setup"
    /\ current_round_data = NewRoundData(0)
    /\ rounds_data = <<>>
    /\ discussion_history = <<>>
    /\ pc = "setup"
    /\ game_over = FALSE
    /\ winner = "None"
    /\ alive_players = <<>>
    /\ idx = 0
    /\ mafia_targets = <<>>
    /\ votes = <<>>
    /\ eliminated_player = 0
    /\ last_words = NoLastWords
    /\ confirmation_votes = NoVotes
    /\ probe = NoProbe
    /\ roles = <<>>
    /\ names = <<>>
    /\ executed = <<>>
    /\ prompted = <<>>
    /\ vocal = 0

\* "roles = []" and the three loops that fill it; range(n) is empty for n < 0
built_roles ==
    LET villager_count == cfg.players - cfg.mafia - cfg.doctor
        n == cfg.mafia + cfg.doctor + (IF villager_count > 0 THEN villager_count ELSE 0)
    IN [i \in 1..n |-> IF i <= cfg.mafia THEN "Mafia"
                       ELSE IF i <= cfg.mafia + cfg.doctor THEN "Doctor"
                       ELSE "Villager"]

\* The lists random.shuffle(roles) can leave in roles
RoleLists ==
    {[i \in DOMAIN built_roles |-> built_roles[pi[i]]] :
        pi \in Permutations(DOMAIN built_roles)}

setup_game ==
    /\ pc = "setup"
    /\ \E r \in RoleLists :
        players' = [i \in 1..cfg.players |->
                        [role |-> r[i], alive |-> TRUE, protected |-> FALSE]]
    /\ phase' = "night"
    /\ round_number' = 1
    /\ current_round_data' = NewRoundData(1)
    /\ pc' = "check_before_day"
    /\ UNCHANGED <<cfg, prompted, unit_vars, rounds_data, discussion_history, result_vars,
                   alive_players, idx, night_vars, day_vars, executed, vocal>>

------------------------------------------------------------------------------
\* Helpers for Python lists and dicts

Put(f, k, v) == [x \in (DOMAIN f) \cup {k} |-> IF x = k THEN v ELSE f[x]]
Get(f, k) == IF k \in DOMAIN f THEN f[k] ELSE <<>>

\* The first element of the list s that satisfies P, 0 (None) if there is none.
FirstMatch(s, P(_)) ==
    LET F[i \in 0..Len(s)] ==
            IF i = 0 THEN 0
            ELSE IF F[i - 1] # 0 THEN F[i - 1]
            ELSE IF P(s[i]) THEN s[i] ELSE 0
    IN F[Len(s)]

\* The keys of a dict that counts the elements of s, in insertion order.
KeysInOrder(s) ==
    LET F[i \in 0..Len(s)] ==
            IF i = 0 THEN <<>>
            ELSE IF s[i] \in Range(F[i - 1]) THEN F[i - 1] ELSE Append(F[i - 1], s[i])
    IN F[Len(s)]

CountOf(s, x) == Cardinality({i \in DOMAIN s : s[i] = x})

Counts(s) == [x \in Range(s) |-> CountOf(s, x)]

\* Mutants of MostVoted: a later key with an equal count replaces the choice
\* (">=" for ">"); of the keys with the highest count, the one that comes first
\* in the list of living players is taken.
MostVoted_LastOfTied(s, alive) ==
    LET keys == KeysInOrder(s)
        F[i \in 0..Len(keys)] ==
            IF i = 0 THEN [max_votes |-> 0, chosen |-> 0]
            ELSE IF CountOf(s, keys[i]) >= F[i - 1].max_votes
                 THEN [max_votes |-> CountOf(s, keys[i]),
                       chosen |-> IF keys[i] \in Range(alive)
                                  THEN keys[i] ELSE F[i - 1].chosen]
                 ELSE F[i - 1]
    IN F[Len(keys)].chosen

MostVoted_SeatOrder(s, alive) ==
    LET top == {x \in Range(s) : \A y \in Range(s) : CountOf(s, y) <= CountOf(s, x)}
    IN FirstMatch(alive, LAMBDA p : p \in top)

\* "max_votes = 0; for name, n in counts.items(): if n > max_votes:
\*  max_votes = n; for player in alive: if player.player_name == name: ..."
MostVoted(s, alive) ==
    LET keys == KeysInOrder(s)
        F[i \in 0..Len(keys)] ==
            IF i = 0 THEN [max_votes |-> 0, chosen |-> 0]
            ELSE IF CountOf(s, keys[i]) > F[i - 1].max_votes
                 THEN [max_votes |-> CountOf(s, keys[i]),
                       chosen |-> IF keys[i] \in Range(alive)
                                  THEN keys[i] ELSE F[i - 1].chosen]
                 ELSE F[i - 1]
    IN F[Len(keys)].chosen

------------------------------------------------------------------------------
\* Player: extraction of actions from a sanitized reply

\* Player.parse_night_action; target 0 is None
parse_night_action(self, reply, all_players) ==
    IF players[self].role = "Mafia" THEN
        LET t == IF reply.kind = "kill"
                 THEN FirstMatch(all_players,
                        LAMBDA p : /\ p = reply.tok
                                   /\ players[p].alive
                                   /\ players[p].role # "Mafia"
                                   /\ p # self)
                 ELSE 0
        IN IF t # 0 THEN [type |-> "kill", target |-> t]
           ELSE [type |-> "None", target |-> 0]
    ELSE IF players[self].role = "Doctor" THEN
        LET t == IF reply.kind = "protect"
                 THEN FirstMatch(all_players,
                        LAMBDA p : p = reply.tok /\ players[p].alive)
                 ELSE 0
        IN IF t # 0 THEN [type |-> "protect", target |-> t]
           ELSE [type |-> "None", target |-> 0]
    ELSE [type |-> "None", target |-> 0]

\* Mutant of parse_day_vote: the voter's own name is accepted.
parse_day_vote_SelfAllowed(self, reply, all_players) ==
    IF reply.kind = "vote"
    THEN FirstMatch(all_players, LAMBDA p : p = reply.tok /\ players[p].alive)
    ELSE 0

\* Player.parse_day_vote; 0 is None
parse_day_vote(self, reply, all_players) ==
    IF reply.kind = "vote"
    THEN FirstMatch(all_players,
            LAMBDA p : p = reply.tok /\ p # self /\ players[p].alive)
    ELSE 0

\* Player.get_confirmation_vote: the reply is fetched, then the call of
\* sanitize_model_response fails, the name not being bound in module player.
Player_get_confirmation_vote(reply) == "NameError"

------------------------------------------------------------------------------
\* run_game: the win check at the head and in the middle of the loop

\* Mutant of AfterCheck: no "if game_over: break" after the check that follows a night.
AfterCheck_NoBreak(over) ==
    IF pc = "check_before_day" THEN "day_begin"
    ELSE IF over THEN "finalize" ELSE "night_begin"

\* "if game_over: break", else the phase that follows the check
AfterCheck(over) ==
    IF over THEN "finalize"
    ELSE IF pc = "check_before_day" THEN "day_begin" ELSE "night_begin"

CheckGameOver ==
    /\ pc \in {"check_before_day", "check_before_night"}
    /\ game_over' = check_game_over[1]
    /\ winner' = check_game_over[2]
    /\ pc' = AfterCheck(check_game_over[1])
    /\ UNCHANGED <<cfg, prompted, unit_vars, players, round_number, phase, current_round_data,
                   rounds_data, discussion_history, alive_players, idx,
                   night_vars, day_vars, executed, vocal>>

\* Mutant of Finalize: the round record that is current when the loop ends is
\* not appended.
Finalize_NoAppend ==
    /\ pc = "finalize"
    /\ pc' = "done"
    /\ UNCHANGED <<cfg, prompted, unit_vars, players, round_number, phase, current_round_data,
                   rounds_data, discussion_history, result_vars, alive_players, idx,
                   night_vars, day_vars, executed, vocal>>

\* Mutant of Finalize: the record appended after the loop is the one the last
\* day has appended already, when there is one.
Finalize_AppendsLast ==
    /\ pc = "finalize"
    /\ rounds_data' = IF rounds_data # <<>>
                      THEN Append(rounds_data, rounds_data[Len(rounds_data)])
                      ELSE Append(rounds_data, current_round_data)
    /\ pc' = "done"
    /\ UNCHANGED <<cfg, prompted, unit_vars, players, round_number, phase, current_round_data,
                   discussion_history, result_vars, alive_players, idx,
                   night_vars, day_vars, executed, vocal>>

\* run_game after the loop: the final round data, the participants, the result
Finalize ==
    /\ pc = "finalize"
    /\ rounds_data' = IF current_round_data.round_number > 0
                      THEN Append(rounds_data, current_round_data)
                      ELSE rounds_data
    /\ pc' = "done"
    /\ UNCHANGED <<cfg, prompted, unit_vars, players, round_number, phase, current_round_data,
                   discussion_history, result_vars, alive_players, idx,
                   night_vars, day_vars, executed, vocal>>

------------------------------------------------------------------------------
\* execute_night_phase

NightBegin ==
    /\ pc = "night_begin"
    /\ players' = [p \in Seats |-> [players[p] EXCEPT !.protected = FALSE]]
    /\ mafia_targets' = <<>>
    /\ alive_players' = get_alive_players
    /\ idx' = 1
    /\ executed' = Append(executed, "night")
    /\ pc' = "night_mafia"
    /\ UNCHANGED <<cfg, prompted, unit_vars, round_number, phase, current_round_data, rounds_data,
                   discussion_history, result_vars, day_vars, vocal>>

\* Mutant of NightMafiaTurn: the night reply is appended to the discussion
\* history as a day reply is.
NightMafiaTurn_Shared ==
    /\ pc = "night_mafia"
    /\ idx <= Len(mafia_players)
    /\ LET player == mafia_players[idx] IN
        IF ~players[player].alive
        THEN UNCHANGED <<current_round_data, mafia_targets, vocal, prompted,
                         discussion_history>>
        ELSE \E reply \in Allowed(NightReplies("Mafia")) :
            LET a == parse_night_action(player, reply, alive_players)
                ok == /\ a.type = "kill"
                      /\ a.target # 0
                      /\ players[a.target].role # "Mafia"
                      /\ a.target # player
                msg == "night"
            IN /\ discussion_history' = Append(discussion_history, msg)
               /\ vocal' = Spoken(reply)
               /\ prompted' = Append(prompted, <<player, "night">>)
               /\ mafia_targets' = IF ok THEN Append(mafia_targets, a.target)
                                   ELSE mafia_targets
               /\ current_round_data' =
                    [current_round_data EXCEPT
                        !.messages = Append(@, msg),
                        !.actions = Put(@, player,
                            IF ok THEN <<"Kill", a.target>> ELSE <<"Invalid action">>)]
    /\ idx' = idx + 1
    /\ UNCHANGED <<cfg, unit_vars, players, round_number, phase, rounds_data,
                   pc, result_vars, alive_players,
                   day_vars, executed>>

\* One iteration of "for player in self.mafia_players"
NightMafiaTurn ==
    /\ pc = "night_mafia"
    /\ idx <= Len(mafia_players)
    /\ LET player == mafia_players[idx] IN
        IF ~players[player].alive
        THEN UNCHANGED <<current_round_data, mafia_targets, vocal, prompted>>
        ELSE \E reply \in Allowed(NightReplies("Mafia")) :
            LET a == parse_night_action(player, reply, alive_players)
                ok == /\ a.type = "kill"
                      /\ a.target # 0
                      /\ players[a.target].role # "Mafia"
                      /\ a.target # player
                msg == "night"
            IN /\ vocal' = Spoken(reply)
               /\ prompted' = Append(prompted, <<player, "night">>)
               /\ mafia_targets' = IF ok THEN Append(mafia_targets, a.target)
                                   ELSE mafia_targets
               /\ current_round_data' =
                    [current_round_data EXCEPT
                        !.messages = Append(@, msg),
                        !.actions = Put(@, player,
                            IF ok THEN <<"Kill", a.target>> ELSE <<"Invalid action">>)]
    /\ idx' = idx + 1
    /\ UNCHANGED <<cfg, unit_vars, players, round_number, phase, rounds_data,
                   discussion_history, pc, result_vars, alive_players,
                   day_vars, executed>>

\* Mutant of KillTarget: the random fallback that the source has commented out,
\* here the first living player who is not Mafia.
KillTarget_Fallback(targets, alive) ==
    IF MostVoted(targets, alive) # 0 THEN MostVoted(targets, alive)
    ELSE FirstMatch(alive, LAMBDA p : players[p].role # "Mafia")

\* "Determine Mafia kill target": None (0) when no Mafia action was valid
KillTarget(targets, alive) ==
    IF targets # <<>> THEN MostVoted(targets, alive) ELSE 0

\* Mutant of Killed: the protection is not looked at.
Killed_Unprotected(kill_target, is_protected) == kill_target # 0

\* "if kill_target and not getattr(kill_target, 'protected', False)"
Killed(kill_target, is_protected) == kill_target # 0 /\ ~is_protected

\* After the loop over the Mafia: "Determine Mafia kill target" and "Record the
\* final mafia target", up to the prompt of the Doctor
NightTarget ==
    /\ pc = "night_mafia"
    /\ idx > Len(mafia_players)
    /\ LET kill_target == KillTarget(mafia_targets, alive_players)
       IN current_round_data' =
            IF kill_target # 0
            THEN [current_round_data EXCEPT !.targeted_by_mafia = Append(@, kill_target)]
            ELSE current_round_data
    /\ pc' = "night_doctor"
    /\ UNCHANGED <<cfg, prompted, unit_vars, players, round_number, phase, rounds_data,
                   discussion_history, result_vars, alive_players, idx, night_vars,
                   day_vars, executed, vocal>>

\* The rest of execute_night_phase: the reply of the Doctor, if one is alive, and
\* "Process night actions"
NightResolve ==
    /\ pc = "night_doctor"
    /\ LET kill_target == KillTarget(mafia_targets, alive_players)
           asked == doctor_player # 0 /\ players[doctor_player].alive
       IN \E reply \in IF asked THEN Allowed(NightReplies("Doctor")) ELSE {Blank} :
            LET a == IF asked
                     THEN parse_night_action(doctor_player, reply, alive_players)
                     ELSE [type |-> "None", target |-> 0]
                ok == asked /\ a.type = "protect" /\ a.target # 0 /\ players[a.target].alive
                protected_now(p) == IF ok /\ p = a.target THEN TRUE ELSE players[p].protected
                killed == Killed(kill_target,
                                 IF kill_target # 0 THEN protected_now(kill_target) ELSE FALSE)
                d1 == current_round_data
                d2 == IF ~asked THEN d1
                      ELSE [d1 EXCEPT
                        !.messages = Append(@, "night"),
                        !.actions = Put(@, doctor_player,
                            IF ok THEN <<"Protect", a.target>> ELSE <<"Invalid action">>),
                        !.protected_by_doctor = IF ok THEN Append(@, a.target) ELSE @]
                d3 == IF killed
                      THEN [d2 EXCEPT !.eliminations = Append(@, kill_target),
                                      !.outcome = <<<<"killed", kill_target>>>>]
                      ELSE IF kill_target # 0 /\ protected_now(kill_target)
                      THEN [d2 EXCEPT !.outcome = <<<<"protected", kill_target>>>>]
                      ELSE [d2 EXCEPT !.outcome = <<<<"no kill">>>>]
            IN /\ vocal' = Spoken(reply)
               /\ prompted' = IF asked THEN Append(prompted, <<doctor_player, "night">>)
                               ELSE prompted
               /\ players' = [p \in Seats |->
                                [players[p] EXCEPT
                                    !.protected = protected_now(p),
                                    !.alive = IF killed /\ p = kill_target THEN FALSE ELSE @]]
               /\ current_round_data' = d3
    /\ phase' = "day"
    /\ pc' = "check_before_day"
    /\ UNCHANGED <<cfg, unit_vars, round_number, rounds_data, discussion_history, result_vars,
                   alive_players, idx, night_vars, day_vars, executed>>

------------------------------------------------------------------------------
\* execute_day_phase

\* Mutant of DayBegin: the new day starts with every player of the roster alive.
DayBegin_Revive ==
    /\ pc = "day_begin"
    /\ players' = [p \in Seats |-> [players[p] EXCEPT !.alive = TRUE]]
    /\ alive_players' = get_alive_players
    /\ votes' = <<>>
    /\ eliminated_player' = 0
    /\ last_words' = NoLastWords
    /\ confirmation_votes' = NoVotes
    /\ idx' = 1
    /\ executed' = Append(executed, "day")
    /\ pc' = "day_discussion"
    /\ UNCHANGED <<cfg, prompted, unit_vars, round_number, phase, current_round_data,
                   rounds_data, discussion_history, result_vars, night_vars, vocal>>

DayBegin ==
    /\ pc = "day_begin"
    /\ alive_players' = get_alive_players
    /\ votes' = <<>>
    /\ eliminated_player' = 0
    /\ last_words' = NoLastWords
    /\ confirmation_votes' = NoVotes
    /\ idx' = 1
    /\ executed' = Append(executed, "day")
    /\ pc' = "day_discussion"
    /\ UNCHANGED <<cfg, prompted, unit_vars, players, round_number, phase, current_round_data,
                   rounds_data, discussion_history, result_vars, night_vars, vocal>>

\* Mutant of Skipped: an empty reply is not skipped, it goes on to the vote handling.
Skipped_Never(reply) == FALSE

\* "if not sanitized or (...): continue" of _conduct_player_interactions
Skipped(reply) == reply.kind = "blank"

\* What _conduct_player_interactions does with the vote of one player.
\* fallback is the draw of random.choice, used only when the parsed vote is refused.
\* The entry <<"Vote", t>> of actions stands for a text that starts with "Vote <t>",
\* which is "Vote <t> (auto-selected)" when the target was drawn.
CastVote(data, player, reply, fallback) ==
    LET parsed == parse_day_vote(player, reply, alive_players)
        refused == parsed = 0 \/ parsed = player \/ ~players[parsed].alive
        possible_targets == SelectSeq(alive_players, LAMBDA p : p # player)
        vote_target == IF ~refused THEN parsed
                       ELSE IF possible_targets # <<>> THEN fallback ELSE 0
        a1 == IF refused /\ possible_targets # <<>>
              THEN Put(data.actions, player, <<"Vote", vote_target>>)
              ELSE data.actions
        a2 == IF vote_target # 0
              THEN IF Get(a1, player) = <<>>
                   THEN Put(a1, player, <<"Vote", vote_target>>) ELSE a1
              ELSE Put(a1, player, <<"Invalid vote">>)
    IN [target |-> vote_target, data |-> [data EXCEPT !.actions = a2]]

\* Mutant of Fallbacks: the draw is made among all living players, the voter included.
Fallbacks_AnyLiving(player, reply) ==
    LET parsed == parse_day_vote(player, reply, alive_players)
    IN IF parsed = 0 THEN Range(alive_players) ELSE {0}

\* The values random.choice(possible_targets) can return for this voter
Fallbacks(player, reply) ==
    LET parsed == parse_day_vote(player, reply, alive_players)
        possible_targets == SelectSeq(alive_players, LAMBDA p : p # player)
    IN IF parsed = 0 /\ possible_targets # <<>> THEN Range(possible_targets) ELSE {0}

\* Mutant of DiscussionTurn: the voting sub-round starts after the first speaker.
DiscussionTurn_OneSpeaker ==
    /\ pc = "day_discussion"
    /\ LET player == alive_players[idx] IN
        \E reply \in Allowed(DiscussionReplies) :
            /\ vocal' = Spoken(reply)
            /\ prompted' = Append(prompted, <<player, "day_discussion">>)
            /\ IF Skipped(reply)
               THEN UNCHANGED <<current_round_data, discussion_history>>
               ELSE LET msg == "day_discussion"
                    IN /\ current_round_data' =
                            [current_round_data EXCEPT !.messages = Append(@, msg)]
                       /\ discussion_history' = Append(discussion_history, msg)
    /\ idx' = 1 /\ pc' = "day_voting"
    /\ UNCHANGED <<cfg, unit_vars, players, round_number, phase, rounds_data, result_vars,
                   alive_players, night_vars, day_vars, executed>>

\* One iteration of _conduct_player_interactions(collect_votes=False)
DiscussionTurn ==
    /\ pc = "day_discussion"
    /\ LET player == alive_players[idx] IN
        \E reply \in Allowed(DiscussionReplies) :
            /\ vocal' = Spoken(reply)
            /\ prompted' = Append(prompted, <<player, "day_discussion">>)
            /\ IF Skipped(reply)
               THEN UNCHANGED <<current_round_data, discussion_history>>
               ELSE LET msg == "day_discussion"
                    IN /\ current_round_data' =
                            [current_round_data EXCEPT !.messages = Append(@, msg)]
                       /\ discussion_history' = Append(discussion_history, msg)
    /\ IF idx < Len(alive_players)
       THEN idx' = idx + 1 /\ pc' = pc
       ELSE idx' = 1 /\ pc' = "day_voting"
    /\ UNCHANGED <<cfg, unit_vars, players, round_number, phase, rounds_data, result_vars,
                   alive_players, night_vars, day_vars, executed>>

\* One iteration of _conduct_player_interactions(collect_votes=True)
VotingTurn ==
    /\ pc = "day_voting"
    /\ LET player == alive_players[idx] IN
        \E reply \in Allowed(VotingReplies) :
            /\ vocal' = Spoken(reply)
            /\ prompted' = Append(prompted, <<player, "day_voting">>)
            /\ IF Skipped(reply)
               THEN UNCHANGED <<current_round_data, discussion_history, votes>>
               ELSE \E fallback \in Fallbacks(player, reply) :
                    LET msg == "day_voting"
                        d1 == [current_round_data EXCEPT !.messages = Append(@, msg)]
                        cast == CastVote(d1, player, reply, fallback)
                    IN /\ current_round_data' = cast.data
                       /\ votes' = IF cast.target # 0
                                   THEN Append(votes, <<player, cast.target>>)
                                   ELSE votes
                       /\ discussion_history' = Append(discussion_history, msg)
    /\ IF idx < Len(alive_players)
       THEN idx' = idx + 1 /\ pc' = pc
       ELSE idx' = 1 /\ pc' = "day_tally"
    /\ UNCHANGED <<cfg, unit_vars, players, round_number, phase, rounds_data, result_vars,
                   alive_players, night_vars, eliminated_player, last_words,
                   confirmation_votes, executed>>

\* The targets of the votes, in the order the votes were cast
VoteTargets == [i \in DOMAIN votes |-> votes[i][2]]

\* "Count votes"
vote_counts == Counts(VoteTargets)

\* MafiaGame.get_confirmation_vote: "voting_players = [p for p in alive_players if
\* p != player_to_eliminate]", alive_players taken by get_alive_players()
voting_players(player_to_eliminate) ==
    SelectSeq(get_alive_players, LAMBDA p : p # player_to_eliminate)

\* Player.model_name of the player at a seat: setup_game draws the models of the
\* players from the list of the game; the list holds one model (a simulation
\* plays the clones of one model), so every player carries the same name
model_name(p) == "model"

\* The lower-case form of one character: the letters A..Z; no other character
\* has one of the letters of the words tested below as its lower-case form
lower_char(c) ==
    CASE c = "A" -> "a" [] c = "B" -> "b" [] c = "C" -> "c" [] c = "D" -> "d"
      [] c = "E" -> "e" [] c = "F" -> "f" [] c = "G" -> "g" [] c = "H" -> "h"
      [] c = "I" -> "i" [] c = "J" -> "j" [] c = "K" -> "k" [] c = "L" -> "l"
      [] c = "M" -> "m" [] c = "N" -> "n" [] c = "O" -> "o" [] c = "P" -> "p"
      [] c = "Q" -> "q" [] c = "R" -> "r" [] c = "S" -> "s" [] c = "T" -> "t"
      [] c = "U" -> "u" [] c = "V" -> "v" [] c = "W" -> "w" [] c = "X" -> "x"
      [] c = "Y" -> "y" [] c = "Z" -> "z"
      [] OTHER -> c

\* str.lower on a vote, character by character
str_lower(vote) ==
    LET F[i \in 0..Len(vote)] ==
            IF i = 0 THEN ""
            ELSE F[i - 1] \o lower_char(SubSeq(vote, i, i))
    IN F[Len(vote)]

\* "if vote.lower() in [...]: confirmation_votes['agree'].append(player.model_name)
\* else: confirmation_votes['disagree'].append(player.model_name)"
record_confirmation(cv, player, vote) ==
    IF str_lower(vote) \in {"agree", "yes", "confirm", "true"}
    THEN [cv EXCEPT !.agree = Append(@, model_name(player))]
    ELSE [cv EXCEPT !.disagree = Append(@, model_name(player))]

\* "is_confirmed = len(confirmation_votes['agree']) > len(voting_players) / 2"
is_confirmed(cv, voters) == 2 * Len(cv.agree) > Len(voters)

\* Mutant of EndOfDay: the end of a day moves two rounds on.
EndOfDay_TwoRounds(data) ==
    /\ phase' = "night"
    /\ rounds_data' = Append(rounds_data, data)
    /\ round_number' = round_number + 2
    /\ current_round_data' = NewRoundData(round_number + 2)
    /\ prompted' = <<>>
    /\ pc' = "check_before_night"

\* The end of execute_day_phase: the append of the round record, the next round
EndOfDay(data) ==
    /\ phase' = "night"
    /\ rounds_data' = Append(rounds_data, data)
    /\ round_number' = round_number + 1
    /\ current_round_data' = NewRoundData(round_number + 1)
    /\ prompted' = <<>>
    /\ pc' = "check_before_night"

\* MafiaGame.get_last_words: the player is asked through Player.get_response
\* and the reply is returned as it is; alive is the player's flag at the call.
get_last_words(player, reply) ==
    [player |-> player, alive |-> players[player].alive, reply |-> reply]

\* Mutant of DayTally: the player with the most votes is eliminated at the count,
\* without the poll.
DayTally_NoPoll ==
    /\ pc = "day_tally"
    /\ LET e == MostVoted(VoteTargets, alive_players)
           counted == [current_round_data EXCEPT
                            !.vote_counts = vote_counts,
                            !.confirmation_votes = confirmation_votes,
                            !.day_data = TRUE]
       IN /\ eliminated_player' = e
          /\ IF e = 0 THEN
                /\ EndOfDay([counted EXCEPT !.outcome = Append(@, <<"no vote elimination">>)])
                /\ UNCHANGED players
             ELSE
                /\ players' = [players EXCEPT ![e].alive = FALSE]
                /\ EndOfDay([counted EXCEPT
                                !.eliminations = Append(@, e),
                                !.eliminated_by_vote = <<e>>,
                                !.outcome = Append(@, <<"eliminated by vote", e>>)])
    /\ UNCHANGED <<cfg, unit_vars, discussion_history, result_vars, alive_players,
                   night_vars, votes, last_words, executed, vocal, idx,
                   confirmation_votes>>

\* Mutant of DayTally: the player with the most votes is asked for last words at
\* the count, before the poll.
DayTally_LastWordsFirst ==
    /\ pc = "day_tally"
    /\ LET e == MostVoted(VoteTargets, alive_players)
           counted == [current_round_data EXCEPT
                            !.vote_counts = vote_counts,
                            !.confirmation_votes = confirmation_votes,
                            !.day_data = TRUE]
       IN /\ eliminated_player' = e
          /\ IF e = 0 THEN
                /\ EndOfDay([counted EXCEPT !.outcome = Append(@, <<"no vote elimination">>)])
                /\ UNCHANGED <<idx, confirmation_votes, last_words>>
             ELSE
                /\ last_words' = [player |-> e, alive |-> players[e].alive, reply |-> Blank]
                /\ confirmation_votes' = NoVotes
                /\ idx' = 1
                /\ pc' = "day_poll"
                /\ UNCHANGED <<phase, rounds_data, round_number, current_round_data,
                               prompted>>
    /\ UNCHANGED <<cfg, unit_vars, players, discussion_history, result_vars, alive_players,
                   night_vars, votes, executed, vocal>>

\* execute_day_phase after the voting sub-round: "Count votes" and "Find player
\* with most votes".  With nobody put up the day ends here; with a player put up
\* the poll begins and its first voter is prompted.
DayTally ==
    /\ pc = "day_tally"
    /\ LET e == MostVoted(VoteTargets, alive_players)
           counted == [current_round_data EXCEPT
                            !.vote_counts = vote_counts,
                            !.confirmation_votes = confirmation_votes,
                            !.day_data = TRUE]
       IN /\ eliminated_player' = e
          /\ IF e = 0 THEN
                /\ EndOfDay([counted EXCEPT !.outcome = Append(@, <<"no vote elimination">>)])
                /\ UNCHANGED <<idx, confirmation_votes>>
             ELSE
                /\ confirmation_votes' = NoVotes
                /\ idx' = 1
                /\ pc' = "day_poll"
                /\ UNCHANGED <<phase, rounds_data, round_number, current_round_data,
                               prompted>>
    /\ UNCHANGED <<cfg, unit_vars, players, discussion_history, result_vars, alive_players,
                   night_vars, votes, last_words, executed, vocal>>

\* The rest of execute_day_phase, reply by reply: the reply of one voter of the
\* confirmation poll and, after the last voter, the decision; then the last words
\* of the eliminated player, the elimination and the end of the day
DayResolve ==
    /\ pc \in {"day_poll", "day_last_words"}
    /\ LET e == eliminated_player
           voters == voting_players(e)
           counted == [current_round_data EXCEPT
                            !.vote_counts = vote_counts,
                            !.day_data = TRUE]
       IN IF pc = "day_poll" THEN
            \E reply \in ConfirmationReplies :
                LET player == voters[idx]
                    vote == Player_get_confirmation_vote(reply)
                    cv == record_confirmation(confirmation_votes, player, vote)
                    asked == Append(prompted, <<player, "confirmation">>)
                IN IF vote = "NameError" THEN
                        /\ pc' = "aborted"
                        /\ prompted' = asked
                        /\ UNCHANGED <<players, phase, rounds_data, round_number,
                                       current_round_data, eliminated_player, last_words,
                                       confirmation_votes, idx>>
                   ELSE IF idx < Len(voters) THEN
                        /\ confirmation_votes' = cv
                        /\ idx' = idx + 1
                        /\ prompted' = asked
                        /\ UNCHANGED <<players, phase, rounds_data, round_number, pc,
                                       current_round_data, eliminated_player, last_words>>
                   ELSE IF ~is_confirmed(cv, voters) THEN
                        /\ confirmation_votes' = cv
                        /\ eliminated_player' = 0
                        /\ EndOfDay([counted EXCEPT
                                        !.confirmation_votes = cv,
                                        !.outcome = Append(@, <<"rejected", e>>)])
                        /\ UNCHANGED <<players, last_words, idx>>
                   ELSE
                        /\ confirmation_votes' = cv
                        /\ current_round_data' =
                                [current_round_data EXCEPT !.confirmation_votes = cv]
                        /\ prompted' = asked
                        /\ pc' = "day_last_words"
                        /\ UNCHANGED <<players, phase, rounds_data, round_number,
                                       eliminated_player, last_words, idx>>
          ELSE
            \E words \in {Blank, Text} :
                /\ last_words' = get_last_words(e, words)
                /\ players' = [players EXCEPT ![e].alive = FALSE]
                /\ EndOfDay([counted EXCEPT
                                !.eliminations = Append(@, e),
                                !.eliminated_by_vote = <<e>>,
                                !.outcome = Append(@, <<"eliminated by vote", e>>)])
                /\ UNCHANGED <<eliminated_player, confirmation_votes, idx>>
    /\ UNCHANGED <<cfg, unit_vars, discussion_history, result_vars, alive_players,
                   night_vars, votes, executed, vocal>>

------------------------------------------------------------------------------
\* Player: from the text of a reply to the name it captures.  A text is a list of
\* characters; the texts here are what follows "ACTION: Kill ", "ACTION: Protect "
\* or "VOTE: " in a sanitized reply (language English).

Letters == {"a", "b", "A", "B"}
Alphabet == Letters \cup {".", ",", "-"}

\* str.lower
lower(s) ==
    [i \in DOMAIN s |-> IF s[i] = "A" THEN "a" ELSE IF s[i] = "B" THEN "b" ELSE s[i]]

\* Player.player_name of the player at a seat: three letters, the first a capital;
\* as in the pool of names, no name is part of another
player_name(p) ==
    <<IF (p \div 4) % 2 = 1 THEN "B" ELSE "A",
      IF (p \div 2) % 2 = 1 THEN "b" ELSE "a",
      IF p % 2 = 1 THEN "b" ELSE "a">>

\* The longest prefix of s made of characters of C
LongestPrefix(s, C) ==
    LET n == CHOOSE k \in 0..Len(s) :
                /\ \A i \in 1..k : s[i] \in C
                /\ k < Len(s) => s[k + 1] \notin C
    IN SubSeq(s, 1, n)

\* group(1) of ACTION_PATTERNS["English"], "([A-Za-z][-A-Za-z]*)"; <<>>: no match
action_group(text) ==
    IF text = <<>> \/ text[1] \notin Letters THEN <<>>
    ELSE LongestPrefix(text, Letters \cup {"-"})

\* group(1) of VOTE_PATTERNS["English"], "([\w./-]+(?:[-:]\w+)*)"; <<>>: no match.
\* No text here has ":" in it, and "-" is taken by the first class.
vote_group(text) == LongestPrefix(text, Letters \cup {".", "/", "-"})

\* str.rstrip('.:,; \t')
rstrip(s) ==
    LET chars == {".", ":", ",", ";", " ", "\t"}
        n == CHOOSE k \in 0..Len(s) :
                /\ \A i \in (k + 1)..Len(s) : s[i] \in chars
                /\ k > 0 => s[k] \notin chars
    IN SubSeq(s, 1, n)

\* Mutant of night_target_name: the captured name is compared as captured.
night_target_name_Untrimmed(text) == action_group(text)

\* target_name of parse_night_action: the captured name, trailing punctuation removed
night_target_name(text) == rstrip(action_group(text))

\* target_name_raw of parse_day_vote: the captured name as it is
vote_target_name(text) == vote_group(text)

\* Mutant of named: a player is named by any text its name starts with.
named_ByPrefix(target_name) ==
    LET hits == {p \in Seats :
                    /\ target_name # <<>>
                    /\ Len(target_name) <= Len(player_name(p))
                    /\ SubSeq(lower(player_name(p)), 1, Len(target_name)) = lower(target_name)}
    IN IF hits = {} THEN 0 ELSE CHOOSE p \in hits : \A q \in hits : p <= q

\* The player p with p.player_name.lower() == target_name.lower(), 0 if there is none
named(target_name) ==
    LET hits == {p \in Seats : lower(player_name(p)) = lower(target_name)}
    IN IF hits = {} THEN 0 ELSE CHOOSE p \in hits : \A q \in hits : p <= q

\* The texts tried: for each seat its name, the name in lower case, the name
\* followed by ".", "," or "-", by another letter, by "." and a letter, the name
\* without its last letter, the name after a "."; and the empty text
Texts ==
    {<<>>} \cup UNION {
        {player_name(p), lower(player_name(p)),
         player_name(p) \o <<".">>, player_name(p) \o <<",">>, player_name(p) \o <<"-">>,
         player_name(p) \o <<"a">>, player_name(p) \o <<".", "a">>,
         SubSeq(player_name(p), 1, 2), <<".">> \o player_name(p)} : p \in Seats}

\* The rosters an extractor can meet: the roles of a setup, at most MaxDead dead
Rosters ==
    {[i \in 1..cfg.players |->
        [role |-> r[i], alive |-> i \notin dead, protected |-> FALSE]] :
            r \in RoleLists,
            dead \in {d \in SUBSET (1..cfg.players) : Cardinality(d) <= MaxDead}}

ExtractInit ==
    /\ cfg \in Configs
    /\ pc = "extract"
    /\ round_number = 1
    /\ phase = "night"
    /\ current_round_data = NewRoundData(1)
    /\ rounds_data = <<>>
    /\ discussion_history = <<>>
    /\ game_over = FALSE
    /\ winner = "None"
    /\ alive_players = <<>>
    /\ idx = 0
    /\ mafia_targets = <<>>
    /\ votes = <<>>
    /\ eliminated_player = 0
    /\ last_words = NoLastWords
    /\ confirmation_votes = NoVotes
    /\ probe = NoProbe
    /\ roles = <<>>
    /\ names = <<>>
    /\ executed = <<>>
    /\ prompted = <<>>
    /\ vocal = 0
    /\ players \in Rosters

\* A living player's reply to the night prompt goes through parse_night_action
ExtractNightAction ==
    /\ pc = "extract"
    /\ \E self \in Range(get_alive_players), text \in Texts :
        LET target_name == night_target_name(text)
            kind == IF players[self].role = "Mafia" THEN "kill" ELSE "protect"
            a == parse_night_action(self, [kind |-> kind, tok |-> named(target_name)],
                                    get_alive_players)
        IN probe' = [self |-> self, call |-> "parse_night_action", text |-> text,
                     token |-> action_group(text), target |-> a.target]
    /\ pc' = "extracted"
    /\ UNCHANGED <<cfg, prompted, players, round_number, phase, current_round_data, rounds_data,
                   discussion_history, result_vars, alive_players, idx,
                   night_vars, day_vars, roles, names, executed, vocal>>

\* A living player's reply to the voting prompt goes through parse_day_vote
ExtractDayVote ==
    /\ pc = "extract"
    /\ \E self \in Range(get_alive_players), text \in Texts :
        LET target_name == vote_target_name(text)
            t == parse_day_vote(self, [kind |-> "vote", tok |-> named(target_name)],
                                get_alive_players)
        IN probe' = [self |-> self, call |-> "parse_day_vote", text |-> text,
                     token |-> vote_group(text), target |-> t]
    /\ pc' = "extracted"
    /\ UNCHANGED <<cfg, prompted, players, round_number, phase, current_round_data, rounds_data,
                   discussion_history, result_vars, alive_players, idx,
                   night_vars, day_vars, roles, names, executed, vocal>>

ExtractNext ==
    \/ ExtractNightAction
    \/ ExtractDayVote

SpecExtract == ExtractInit /\ [][ExtractNext]_vars

------------------------------------------------------------------------------
\* setup_game step by step: the roles, then one player after the other with its name

\* player_names, cut down to PoolSize names: enough for the PLAYERS_PER_GAME seats of
\* a game, as the 39 names of game.py are
NamePool == {player_name(k) : k \in 1..PoolSize}

\* Mutant of available_names: the names in use are offered again.
available_names_Reused(used_names) == NamePool

\* "[name for name in player_names if name not in used_names]"
available_names(used_names) == NamePool \ Range(used_names)

\* The seat counts of the setups: PLAYERS_PER_GAME, which the pool can name, and a
\* count over the size of the pool (40 seats or more in game.py)
SetupConfigs ==
    {c \in [players : {PLAYERS_PER_GAME, PoolSize + 1}, mafia : 0..MaxMafia,
            doctor : {0, 1}] : c.mafia + c.doctor < c.players}

SetupInit ==
    /\ cfg \in SetupConfigs
    /\ pc = "setup"
    /\ players = <<>>
    /\ round_number = 0
    /\ phase = "setup"
    /\ current_round_data = NewRoundData(0)
    /\ rounds_data = <<>>
    /\ discussion_history = <<>>
    /\ game_over = FALSE
    /\ winner = "None"
    /\ alive_players = <<>>
    /\ idx = 0
    /\ mafia_targets = <<>>
    /\ votes = <<>>
    /\ eliminated_player = 0
    /\ last_words = NoLastWords
    /\ confirmation_votes = NoVotes
    /\ probe = NoProbe
    /\ roles = <<>>
    /\ names = <<>>
    /\ executed = <<>>
    /\ prompted = <<>>
    /\ vocal = 0

\* "roles = []" to "random.shuffle(roles)"
SetupRoles ==
    /\ pc = "setup" /\ roles = <<>>
    /\ roles' \in RoleLists
    /\ pc' = "setup_players"
    /\ UNCHANGED <<cfg, prompted, players, round_number, phase, current_round_data, rounds_data,
                   discussion_history, result_vars, alive_players, idx, night_vars,
                   day_vars, probe, names, executed, vocal>>

\* One iteration of "for i, model_name in enumerate(selected_models)"
SetupPlayer ==
    /\ pc = "setup_players"
    /\ Len(players) < cfg.players
    /\ LET seat == Len(players) + 1
           available == available_names(names)
       IN /\ \E player_name_ \in IF available = {} THEN {<<"Player_", seat>>}
                                                   ELSE available :
                names' = Append(names, player_name_)
          /\ players' = Append(players,
                            [role |-> roles[seat], alive |-> TRUE, protected |-> FALSE])
    /\ UNCHANGED <<cfg, pc, prompted, round_number, phase, current_round_data, rounds_data,
                   discussion_history, result_vars, alive_players, idx, night_vars,
                   day_vars, probe, roles, executed, vocal>>

\* The end of setup_game, after the loop: "self.phase = 'night'", the first round
\* and its record, "return True"
SetupFinish ==
    /\ pc = "setup_players"
    /\ Len(players) = cfg.players
    /\ phase' = "night"
    /\ round_number' = 1
    /\ current_round_data' = NewRoundData(1)
    /\ pc' = "setup_done"
    /\ UNCHANGED <<cfg, prompted, players, rounds_data, discussion_history, result_vars,
                   alive_players, idx, night_vars, day_vars, probe, roles, names,
                   executed, vocal>>

SetupNext ==
    \/ SetupRoles
    \/ SetupPlayer
    \/ SetupFinish

SpecSetup == SetupInit /\ [][SetupNext]_vars

------------------------------------------------------------------------------
\* parsing.sanitize_model_response.  A text is here a list of pieces, each piece a
\* fixed string: a word, a blank, a line break, the label of the speaker ("Aab:"),
\* the label of another player ("Aba:"), the marker "your response" and the
\* keywords.  A match of a pattern in the string is a match at the pieces, with one
\* exception: the marker holds a blank, so a word that runs into the marker ends
\* inside it, after "your".  The piece "your" stands for that beginning of the
\* marker; it occurs in results only.

Pieces == {"x", " ", "\n", "Aab:", "Aba:", "your response",
           "VOTE:", "ACTION:", "kill", "protect"}

\* What \s matches
Whitespace == {" ", "\n"}

\* The pieces whose last character is a word character: no \b after them
WordEnd == {"x", "your response", "your", "kill", "protect"}

\* name -> the piece "<name>:"
label(name) == IF name = "Aab" THEN "Aab:" ELSE IF name = "Aba" THEN "Aba:" ELSE "none:"

\* The texts of at most n pieces
TextsUpTo(n) == UNION {[1..k -> Pieces] : k \in 0..n}

\* The arguments that are not text: None, numbers, lists
NonText ==
    {[type |-> "NoneType", val |-> <<>>], [type |-> "int", val |-> <<0>>],
     [type |-> "int", val |-> <<7>>], [type |-> "list", val |-> <<>>],
     [type |-> "list", val |-> <<"x">>]}

str(text) == [type |-> "str", val |-> text]

\* Python's truth value of an argument
truthy(v) ==
    IF v.type = "NoneType" THEN FALSE
    ELSE IF v.type = "int" THEN v.val # <<0>>
    ELSE v.val # <<>>

\* s[a..b], empty when b < a
Slice(s, a, b) == IF b < a THEN <<>> ELSE SubSeq(s, a, b)

\* The positions of s that hold a piece of K, in increasing order
Positions(s, K) ==
    LET F[i \in 0..Len(s)] ==
            IF i = 0 THEN <<>>
            ELSE IF s[i] \in K THEN Append(F[i - 1], i) ELSE F[i - 1]
    IN F[Len(s)]

\* The position where the line of position i starts, and the position of the
\* line break that ends it (Len(s) + 1 if the line is the last one)
LineStart(s, i) ==
    LET before == {j \in 1..(i - 1) : s[j] = "\n"}
    IN IF before = {} THEN 1 ELSE 1 + CHOOSE j \in before : \A k \in before : k <= j
LineEnd(s, i) ==
    LET after == {j \in i..Len(s) : s[j] = "\n"}
    IN IF after = {} THEN Len(s) + 1 ELSE CHOOSE j \in after : \A k \in after : j <= k

\* str.strip, str.lstrip
lstrip(s) ==
    LET rest == {i \in 1..Len(s) : s[i] \notin Whitespace}
    IN IF rest = {} THEN <<>>
       ELSE Slice(s, CHOOSE i \in rest : \A k \in rest : i <= k, Len(s))
strip(s) ==
    LET rest == {i \in 1..Len(s) : s[i] \notin Whitespace}
    IN IF rest = {} THEN <<>>
       ELSE Slice(s, CHOOSE i \in rest : \A k \in rest : i <= k,
                     CHOOSE i \in rest : \A k \in rest : k <= i)

\* "needle in hay" for two texts
contains(hay, needle) ==
    \E i \in 0..(Len(hay) - Len(needle)) :
        \A k \in 1..Len(needle) :
            \/ hay[i + k] = needle[k]
            \/ k = Len(needle) /\ needle[k] = "your" /\ hay[i + k] = "your response"

\* Step 1: the text is cut before the first line that starts with "<Name>:" of
\* another active player
cut_foreign_label(response, cur_player_name, list_active_names) ==
    LET other_names == SelectSeq(list_active_names, LAMBDA n : n # cur_player_name)
        labels == {label(other_names[i]) : i \in DOMAIN other_names}
        hits == {i \in 1..Len(response) :
                    /\ response[i] \in labels
                    /\ \A j \in LineStart(response, i)..(i - 1) : response[j] = " "}
    IN IF hits = {} THEN response
       ELSE LET first == CHOOSE i \in hits : \A k \in hits : i <= k
            IN Slice(response, 1, LineStart(response, first) - 2)

\* Step 2: the cut at the marker "your response"
cut_your_response(response) ==
    LET yr_matches == Positions(response, {"your response"})
    IN IF yr_matches = <<>> THEN response
       ELSE IF Len(yr_matches) >= 2
       THEN LET second_start == yr_matches[2]
                end_of_line == LineEnd(response, second_start)
            IN IF end_of_line = Len(response) + 1
               THEN Slice(response, second_start + 1, Len(response))
               ELSE Slice(response, end_of_line + 1, Len(response))
       ELSE Slice(response, 1, LineStart(response, yr_matches[1]) - 1)
                \o Slice(response, LineEnd(response, yr_matches[1]) + 1, Len(response))

\* Steps 3a and 3b: re.split(pattern, response)[0]; the pattern takes the line
\* break in front of the keyword along
cut_keywords(response, phase_type) ==
    LET keywords == IF phase_type \in {"discussion", "day_discussion"}
                    THEN {"ACTION:", "VOTE:", "kill"}
                    ELSE IF phase_type = "night" THEN {"VOTE:"} ELSE {}
        hits == Positions(response, keywords)
    IN IF hits = <<>> THEN response
       ELSE IF hits[1] > 1 /\ response[hits[1] - 1] = "\n"
       THEN Slice(response, 1, hits[1] - 2)
       ELSE Slice(response, 1, hits[1] - 1)

\* Step 5: "Name: Name: ..." and "Name: " of the speaker at the start are removed
strip_own_label(response, cur_player_name) ==
    IF cur_player_name # "" /\ response # <<>> /\ response[1] = label(cur_player_name)
    THEN LET rest == {i \in 1..Len(response) :
                        response[i] \notin {label(cur_player_name)} \cup Whitespace}
         IN IF rest = {} THEN <<>>
            ELSE Slice(response, CHOOSE i \in rest : \A k \in rest : i <= k, Len(response))
    ELSE lstrip(response)

\* re.search(r'\bVOTE:\s*([^\s\n]+)'): group(0) of the first match, <<>> for None.
\* The word of the vote ends before the first blank or line break, the blank
\* inside the marker included
vote_match(response) ==
    LET hits == {i \in 1..Len(response) :
                    /\ response[i] = "VOTE:"
                    /\ i > 1 => response[i - 1] \notin WordEnd
                    /\ lstrip(Slice(response, i + 1, Len(response))) # <<>>}
    IN IF hits = {} THEN <<>>
       ELSE LET i == CHOOSE h \in hits : \A k \in hits : h <= k
                start == CHOOSE j \in (i + 1)..Len(response) :
                            /\ response[j] \notin Whitespace
                            /\ \A k \in (i + 1)..(j - 1) : response[k] \in Whitespace
                stops == {j \in start..Len(response) :
                            response[j] \in Whitespace \cup {"your response"}}
                stop == IF stops = {} THEN Len(response) + 1
                        ELSE CHOOSE j \in stops : \A k \in stops : j <= k
            IN IF stop <= Len(response) /\ response[stop] = "your response"
               THEN Slice(response, i, stop - 1) \o <<"your">>
               ELSE Slice(response, i, stop - 1)

\* re.search(r'\bACTION:\s*[^\n]+'): group(0) of the first match, <<>> for None
action_match(response) ==
    LET hits == {i \in 1..Len(response) :
                    /\ response[i] = "ACTION:"
                    /\ i > 1 => response[i - 1] \notin WordEnd
                    /\ lstrip(Slice(response, i + 1, Len(response))) # <<>>}
    IN IF hits = {} THEN <<>>
       ELSE LET i == CHOOSE h \in hits : \A k \in hits : h <= k
                start == CHOOSE j \in (i + 1)..Len(response) :
                            /\ response[j] \notin Whitespace
                            /\ \A k \in (i + 1)..(j - 1) : response[k] \in Whitespace
            IN Slice(response, i, LineEnd(response, start) - 1)

\* " ".join(result_parts)
join_parts(result_parts) ==
    LET F[i \in 0..Len(result_parts)] ==
            IF i = 0 THEN <<>>
            ELSE IF i = 1 THEN result_parts[1]
            ELSE F[i - 1] \o <<" ">> \o result_parts[i]
    IN F[Len(result_parts)]

\* Step 6: the first line, then the VOTE: command, then the ACTION: command
one_line(response) ==
    LET first_line == strip(Slice(response, 1, LineEnd(response, 1) - 1))
        vote_cmd == strip(vote_match(response))
        action_cmd == strip(action_match(response))
        part1 == IF first_line # <<>> THEN <<first_line>> ELSE <<>>
        part2 == IF vote_cmd # <<>> /\ ~contains(first_line, vote_cmd)
                 THEN <<vote_cmd>> ELSE <<>>
        part3 == IF /\ action_cmd # <<>>
                    /\ ~contains(first_line, action_cmd)
                    /\ (vote_cmd = <<>> \/ ~contains(vote_match(response), action_cmd))
                 THEN <<action_cmd>> ELSE <<>>
    IN strip(join_parts(part1 \o part2 \o part3))

\* Mutant of sanitize_model_response: the guard is "if not response" alone, so
\* an argument that is not text reaches splitlines and raises.
sanitize_model_response_NoTypeCheck(response, cur_player_name, list_active_names, phase_type) ==
    IF ~truthy(response) THEN <<>>
    ELSE IF response.type # "str" THEN <<"AttributeError">>
    ELSE one_line(strip_own_label(strip(cut_keywords(cut_your_response(
            cut_foreign_label(response.val, cur_player_name, list_active_names)),
            phase_type)), cur_player_name))

sanitize_model_response(response, cur_player_name, list_active_names, phase_type) ==
    IF ~truthy(response) \/ response.type # "str" THEN <<>>
    ELSE LET r1 == cut_foreign_label(response.val, cur_player_name, list_active_names)
             r2 == cut_your_response(r1)
             r3 == cut_keywords(r2, phase_type)
             r4 == strip(r3)
             r5 == strip_own_label(r4, cur_player_name)
         IN one_line(r5)

\* The calls of sanitize_model_response that are tried: every text of at most
\* MaxText pieces as the reply of player "Aab", with "Aba" alive or not, in the
\* phases the game passes; what is not text, and the empty text, with any names
SanitizeInputs ==
    {[response |-> str(t), cur_player_name |-> "Aab", list_active_names |-> nm,
      phase_type |-> ph] :
        t \in TextsUpTo(MaxText), nm \in {<<"Aab", "Aba">>, <<"Aab">>},
        ph \in {"night", "day_discussion", "day_voting"}}
    \cup
    {[response |-> v, cur_player_name |-> cur, list_active_names |-> nm,
      phase_type |-> ph] :
        v \in NonText \cup {str(<<>>)}, cur \in {"Aab", "Aba", ""},
        nm \in {<<>>, <<"Aab">>, <<"Aab", "Aba">>},
        ph \in {"night", "day_discussion", "day_voting", "confirmation", ""}}

SanitizeInit ==
    /\ cfg \in {c \in Configs : c.mafia = 1 /\ c.doctor = 1}
    /\ pc = "sanitize"
    /\ players = <<>>
    /\ round_number = 0
    /\ phase = "setup"
    /\ current_round_data = NewRoundData(0)
    /\ rounds_data = <<>>
    /\ discussion_history = <<>>
    /\ game_over = FALSE
    /\ winner = "None"
    /\ alive_players = <<>>
    /\ idx = 0
    /\ mafia_targets = <<>>
    /\ votes = <<>>
    /\ eliminated_player = 0
    /\ last_words = NoLastWords
    /\ confirmation_votes = NoVotes
    /\ roles = <<>>
    /\ names = <<>>
    /\ executed = <<>>
    /\ prompted = <<>>
    /\ vocal = 0
    /\ \E in \in SanitizeInputs :
        probe = [call |-> "none", args |-> in, result |-> <<>>, again |-> <<>>]

\* sanitized = sanitize_model_response(response, name, names, phase)
Sanitize ==
    /\ pc = "sanitize"
    /\ probe' = [probe EXCEPT
                    !.call = "sanitize_model_response",
                    !.result = sanitize_model_response(probe.args.response,
                                    probe.args.cur_player_name,
                                    probe.args.list_active_names,
                                    probe.args.phase_type)]
    /\ pc' = "sanitized"
    /\ UNCHANGED <<cfg, prompted, players, round_number, phase, current_round_data,
                   rounds_data, discussion_history, result_vars, alive_players, idx,
                   night_vars, day_vars, roles, names, executed, vocal>>

\* The output is sanitized once more, with the same name, names and phase
SanitizeAgain ==
    /\ pc = "sanitized"
    /\ probe' = [probe EXCEPT
                    !.again = sanitize_model_response(str(probe.result),
                                    probe.args.cur_player_name,
                                    probe.args.list_active_names,
                                    probe.args.phase_type)]
    /\ pc' = "sanitized_twice"
    /\ UNCHANGED <<cfg, prompted, players, round_number, phase, current_round_data,
                   rounds_data, discussion_history, result_vars, alive_players, idx,
                   night_vars, day_vars, roles, names, executed, vocal>>

SanitizeNext ==
    \/ Sanitize
    \/ SanitizeAgain

SpecSanitize == SanitizeInit /\ [][SanitizeNext]_vars

------------------------------------------------------------------------------
\* The way of one reply of player "Aab" (living: "Aab" and "Aba") through each
\* place of the engine that a game gets to and that fetches a reply: what is
\* stored in the round record and the discussion history, and what is handed to
\* an extractor.  The last words are fetched behind a confirmed poll only
\* (execute_day_phase, "if confirmed"), and are modelled there.

Replies == TextsUpTo(MaxReply)

\* re.sub(r"\n\s*\n", "\n\n", text): in a run of blanks and line breaks, what
\* lies between its first and its last line break is dropped
collapse_blank_lines(text) ==
    LET F[k \in 0..Len(text)] ==
            IF k = 0 THEN <<>>
            ELSE LET i == Len(text) - k + 1
                     run == {j \in (i + 1)..Len(text) :
                                /\ text[j] = "\n"
                                /\ \A m \in i..j : text[m] \in Whitespace}
                 IN IF text[i] = "\n" /\ run # {}
                    THEN LET last == CHOOSE j \in run : \A m \in run : m <= j
                         IN <<"\n", "\n">> \o F[Len(text) - last]
                    ELSE <<text[i]>> \o F[k - 1]
    IN F[Len(text)]

\* Player.get_response: what the model answered, the <think> blocks removed (no
\* text here holds one), the blank lines collapsed, stripped
get_response(raw) == strip(collapse_blank_lines(raw))

\* Nothing was fetched yet
NoReply(raw) == [call |-> "none", raw |-> raw, words |-> <<>>, stored |-> <<>>,
                 handed |-> <<>>, raised |-> FALSE]

\* "if not sanitized or (phase_type in [...] and ('ACTION:' in clean_test or ...))"
skip_reply(sanitized, phase_type) ==
    \/ sanitized = <<>>
    \/ /\ phase_type \in {"day_discussion", "discussion"}
       /\ Positions(sanitized, {"ACTION:", "VOTE:"}) # <<>>

\* The words of a reply to the poll: the two words the patterns of
\* CONFIRMATION_VOTE_PATTERNS tell apart, another word and the blank
PollWords == {"agree", "disagree", "x", " "}

PollReplies == UNION {[1..k -> PollWords] : k \in 0..MaxReply}

\* re.search(r"\b(word)\b", text): the word stands alone, between blanks or the
\* ends of the text.  "agree" inside "disagree" or next to "x" is no match.
search_word(text, word) ==
    \E i \in 1..Len(text) :
        /\ text[i] = word
        /\ i = 1 \/ text[i - 1] \in Whitespace
        /\ i = Len(text) \/ text[i + 1] \in Whitespace

\* Player.get_confirmation_vote after the sanitizing: "if re.search(agree) ...
\* elif re.search(disagree) ... else", the agree pattern is tried first
confirmation_match(response_clean) ==
    IF search_word(response_clean, "agree") THEN "agree"
    ELSE IF search_word(response_clean, "disagree") THEN "disagree"
    ELSE "disagree"

ReplyInit ==
    /\ cfg \in {c \in Configs : c.mafia = 1 /\ c.doctor = 1}
    /\ pc = "reply"
    /\ players = <<>>
    /\ round_number = 0
    /\ phase = "setup"
    /\ current_round_data = NewRoundData(0)
    /\ rounds_data = <<>>
    /\ discussion_history = <<>>
    /\ game_over = FALSE
    /\ winner = "None"
    /\ alive_players = <<>>
    /\ idx = 0
    /\ mafia_targets = <<>>
    /\ votes = <<>>
    /\ eliminated_player = 0
    /\ last_words = NoLastWords
    /\ confirmation_votes = NoVotes
    /\ roles = <<>>
    /\ names = <<>>
    /\ executed = <<>>
    /\ prompted = <<>>
    /\ vocal = 0
    /\ \E raw \in Replies \cup PollReplies : probe = NoReply(raw)

\* Mutant of night_content: the reply is used as it was fetched.
night_content_Raw(raw) == raw

\* execute_night_phase: "response = sanitize_model_response(response, ...)"
night_content(raw) == sanitize_model_response(str(raw), "Aab", <<"Aab", "Aba">>, "night")

\* The reply of a Mafia member or of the Doctor: the message is stored, then the
\* action is parsed
ReplyAtNight ==
    /\ pc = "reply"
    /\ LET response == night_content(get_response(probe.raw))
       IN probe' = [probe EXCEPT !.call = "execute_night_phase",
                                 !.stored = <<response>>,
                                 !.handed = <<response>>]
    /\ pc' = "replied"
    /\ UNCHANGED <<cfg, prompted, players, round_number, phase, current_round_data,
                   rounds_data, discussion_history, result_vars, alive_players, idx,
                   night_vars, day_vars, roles, names, executed, vocal>>

\* One reply in _conduct_player_interactions: skipped, or stored in the messages
\* and the discussion history and, in the voting sub-round, parsed for the vote
ReplyInDay ==
    /\ pc = "reply"
    /\ \E phase_type \in {"day_discussion", "day_voting"} :
        LET sanitized == sanitize_model_response(str(get_response(probe.raw)), "Aab",
                                                  <<"Aab", "Aba">>, phase_type)
        IN probe' = IF skip_reply(sanitized, phase_type)
                    THEN [probe EXCEPT !.call = phase_type]
                    ELSE [probe EXCEPT
                            !.call = phase_type,
                            !.stored = <<sanitized, sanitized>>,
                            !.handed = IF phase_type = "day_voting"
                                       THEN <<sanitized>> ELSE <<>>]
    /\ pc' = "replied"
    /\ UNCHANGED <<cfg, prompted, players, round_number, phase, current_round_data,
                   rounds_data, discussion_history, result_vars, alive_players, idx,
                   night_vars, day_vars, roles, names, executed, vocal>>

\* MafiaGame.get_last_words: "response = player.get_response(prompt) ... return
\* response"; execute_day_phase stores what it returns, if it is not empty, as
\* the last words of the round record: the reply as it was fetched.
last_words_content(response) == response

\* The poll on the accused Aba, whose one voter is Aab, and what execute_day_phase
\* does when the poll has confirmed.  Player.get_confirmation_vote: the call of
\* sanitize_model_response raises NameError, nothing reaches the agree/disagree
\* match and the day phase ends there.  Behind a poll that returns and confirms,
\* get_last_words fetches the reply of the accused and the round record stores it.
ReplyToPoll ==
    /\ pc = "reply"
    /\ LET vote == Player_get_confirmation_vote(get_response(probe.raw))
           voters == <<1>>
       IN IF vote = "NameError"
          THEN probe' = [probe EXCEPT !.call = "get_confirmation_vote",
                                      !.raised = TRUE]
          ELSE IF ~is_confirmed(record_confirmation(NoVotes, voters[1], vote), voters)
          THEN probe' = [probe EXCEPT !.call = "get_confirmation_vote",
                                      !.handed = <<vote>>]
          ELSE \E words \in Replies :
                LET last_words_reply == last_words_content(get_response(words))
                IN probe' = [probe EXCEPT
                                !.call = "get_last_words",
                                !.words = words,
                                !.handed = <<vote>>,
                                !.stored = IF last_words_reply # <<>>
                                           THEN <<last_words_reply>> ELSE <<>>]
    /\ pc' = "replied"
    /\ UNCHANGED <<cfg, prompted, players, round_number, phase, current_round_data,
                   rounds_data, discussion_history, result_vars, alive_players, idx,
                   night_vars, day_vars, roles, names, executed, vocal>>

ReplyNext ==
    \/ ReplyAtNight
    \/ ReplyInDay
    \/ ReplyToPoll

SpecReply == ReplyInit /\ [][ReplyNext]_vars

(***************************************************************************)
(* A game whose configuration cannot be seated: MAFIA_COUNT + DOCTOR_COUNT *)
(* leaves no seat for a Villager, or asks for more roles than seats.       *)
(* Nothing in __init__ or setup_game looks at the counts, so such a game   *)
(* is constructed, set up and run like any other.                          *)
(***************************************************************************)

\* Bound: the roles asked for exceed the seats by at most this many.
MaxExtra == 1

Unseatable ==
    {c \in [players : {PLAYERS_PER_GAME}, mafia : 0..MaxMafia,
            doctor : 0..(PLAYERS_PER_GAME + MaxExtra)] :
        /\ c.mafia + c.doctor >= c.players
        /\ c.mafia + c.doctor <= c.players + MaxExtra}

UnseatableInit ==
    /\ cfg \in Unseatable
    /\ players = <<>>
    /\ round_number = 0
    /\ phase = "setup"
    /\ current_round_data = NewRoundData(0)
    /\ rounds_data = <<>>
    /\ discussion_history = <<>>
    /\ pc = "setup"
    /\ game_over = FALSE
    /\ winner = "None"
    /\ alive_players = <<>>
    /\ idx = 0
    /\ mafia_targets = <<>>
    /\ votes = <<>>
    /\ eliminated_player = 0
    /\ last_words = NoLastWords
    /\ confirmation_votes = NoVotes
    /\ probe = NoProbe
    /\ roles = <<>>
    /\ names = <<>>
    /\ executed = <<>>
    /\ prompted = <<>>
    /\ vocal = 0

\* run_game of such a game: with no Villager seated the first check_game_over
\* ends the loop.
UnseatableNext ==
    \/ setup_game
    \/ CheckGameOver
    \/ Finalize

SpecUnseatable == UnseatableInit /\ [][UnseatableNext]_vars

(***************************************************************************)
(* The games of a simulation: run_simulation runs run_single_game for each *)
(* game, one after the other or on the threads of a pool, and hands what   *)
(* it gives to handle_result, which stores the result of a finished game   *)
(* through FirebaseManager and then counts it in stats.  run_single_game   *)
(* constructs its game without models, and FirebaseManager is constructed  *)
(* from a config.py that has no FIREBASE_DATABASE_URL.                     *)
(***************************************************************************)

\* config.NUM_GAMES: environment NUM_GAMES (default 1), the games of one
\* simulation; run_simulation can run them side by side when there are more than
\* one.
NUM_GAMES == 2

Games == 1..NUM_GAMES

\* FirebaseManager.__init__: reading config.FIREBASE_DATABASE_URL raises
\* AttributeError inside the try, the except ends with initialized False.
FirebaseManager_initialized == FALSE

\* MafiaGame.__init__: "self.models = models if models else [config.DEFAULT_MODEL]"
\* looks at the truth value of models; without models (None) and with an empty
\* list the read of config.DEFAULT_MODEL raises AttributeError, config.py
\* defining no DEFAULT_MODEL, before the generator is seeded and before anything
\* is drawn.
MafiaGame_init(models) ==
    IF models = "None" \/ Len(models) = 0 THEN "AttributeError" ELSE "built"

\* The parameters of the two store functions that a call can name.
store_game_result_params == {"game_id", "winner", "participants", "game_type"}
store_game_log_params == {"game_id", "rounds", "participants", "game_type"}

\* The keyword arguments handle_result passes to them.
store_game_result_keywords == {"language"}
store_game_log_keywords == {"language", "critic_review"}

\* Python binds the arguments before the body runs: a keyword that is no
\* parameter raises TypeError at the call.
call_raises(params, keywords) == ~(keywords \subseteq params)

\* The body of store_game_result and of store_game_log: False when Firebase is
\* not initialized or the write raises, True otherwise.
store(initialized, db_ok) == initialized /\ db_ok

NoStats ==
    [completed_games |-> 0, mafia_wins |-> 0, villager_wins |-> 0,
     games |-> 0, wins |-> 0, mafia_games |-> 0, model_mafia_wins |-> 0,
     villager_games |-> 0, model_villager_wins |-> 0,
     doctor_games |-> 0, doctor_wins |-> 0]

\* The statistics after a game with the given winner is counted; the
\* participants are those of cfg, all of them clones of one model.
counted(stats, w) ==
    LET m == cfg.mafia
        d == cfg.doctor
        v == cfg.players - cfg.mafia - cfg.doctor
    IN [completed_games |-> stats.completed_games + 1,
        mafia_wins |-> stats.mafia_wins + (IF w = "Mafia" THEN 1 ELSE 0),
        villager_wins |-> stats.villager_wins + (IF w = "Mafia" THEN 0 ELSE 1),
        games |-> stats.games + cfg.players,
        wins |-> stats.wins + (IF w = "Mafia" THEN m
                                ELSE IF w = "Villagers" THEN d + v ELSE 0),
        mafia_games |-> stats.mafia_games + m,
        model_mafia_wins |-> stats.model_mafia_wins + (IF w = "Mafia" THEN m ELSE 0),
        villager_games |-> stats.villager_games + v,
        model_villager_wins |-> stats.model_villager_wins
                                    + (IF w = "Villagers" THEN v ELSE 0),
        doctor_games |-> stats.doctor_games + d,
        doctor_wins |-> stats.doctor_wins + (IF w = "Villagers" THEN d ELSE 0)]

\* handle_result: inside one try, the result of the game (a future that holds
\* the exception of run_single_game raises it here), the two stores when Firebase
\* is initialized, then the statistics; an exception is logged and ends the
\* handling.
handle_result(stats, initialized, w, db_ok) ==
    IF w = "AttributeError"
    THEN [stats |-> stats, logged |-> "AttributeError", stored |-> <<>>]
    ELSE IF initialized /\ call_raises(store_game_result_params, store_game_result_keywords)
    THEN [stats |-> stats, logged |-> "TypeError", stored |-> <<>>]
    ELSE IF initialized /\ call_raises(store_game_log_params, store_game_log_keywords)
    THEN [stats |-> stats, logged |-> "TypeError",
          stored |-> <<store(initialized, db_ok)>>]
    ELSE [stats |-> counted(stats, w), logged |-> "None",
          stored |-> IF initialized
                     THEN <<store(initialized, db_ok), store(initialized, db_ok)>>
                     ELSE <<>>]

PersistInit ==
    /\ cfg \in Configs
    /\ pc = "persist"
    /\ players = <<>>
    /\ round_number = 0
    /\ phase = "setup"
    /\ current_round_data = NewRoundData(0)
    /\ rounds_data = <<>>
    /\ discussion_history = <<>>
    /\ game_over = FALSE
    /\ winner = "None"
    /\ alive_players = <<>>
    /\ idx = 0
    /\ mafia_targets = <<>>
    /\ votes = <<>>
    /\ eliminated_player = 0
    /\ last_words = NoLastWords
    /\ confirmation_votes = NoVotes
    /\ roles = <<>>
    /\ names = <<>>
    /\ executed = <<>>
    /\ prompted = <<>>
    /\ vocal = 0
    /\ \E parallel \in BOOLEAN :
        probe = [initialized |-> FirebaseManager_initialized,
                 parallel |-> parallel,
                 games |-> [g \in Games |-> [pc |-> "running", winner |-> "None",
                                             logged |-> "None", stored |-> <<>>]],
                 stats |-> NoStats,
                 summary |-> "None"]

PersistFrame ==
    /\ pc = "persist"
    /\ UNCHANGED <<cfg, pc, prompted, players, round_number, phase, current_round_data,
                   rounds_data, discussion_history, result_vars, alive_players, idx,
                   night_vars, day_vars, roles, names, executed, vocal>>

\* run_single_game of game g: "game = MafiaGame(language=language)" raises.  On
\* the thread pool the exception waits in the future; in the loop of the
\* sequential run, where the games run one after the other, it ends
\* run_simulation at the first game.
GameFinished(g) ==
    /\ probe.games[g].pc = "running"
    /\ probe.summary = "None"
    /\ probe.parallel \/ \A h \in 1..(g - 1) : probe.games[h].pc = "handled"
    /\ LET raised == MafiaGame_init("None")
       IN probe' = IF ~probe.parallel
                   THEN [probe EXCEPT !.games[g].pc = "raised", !.summary = raised]
                   ELSE [probe EXCEPT !.games[g].pc = "finished",
                                      !.games[g].winner = raised]
    /\ PersistFrame

\* handle_result for the result of game g; the write to the database succeeds
\* or raises.
HandleResult(g) ==
    /\ probe.games[g].pc = "finished"
    /\ \E db_ok \in BOOLEAN :
        LET handled == handle_result(probe.stats, probe.initialized,
                                     probe.games[g].winner, db_ok)
        IN probe' = [probe EXCEPT !.stats = handled.stats,
                                  !.games[g].pc = "handled",
                                  !.games[g].logged = handled.logged,
                                  !.games[g].stored = handled.stored]
    /\ PersistFrame

\* The summary of run_simulation after the last result: it divides by
\* completed_games.
Summary ==
    /\ probe.summary = "None"
    /\ \A g \in Games : probe.games[g].pc = "handled"
    /\ probe' = [probe EXCEPT !.summary = IF probe.stats.completed_games = 0
                                          THEN "ZeroDivisionError" ELSE "printed"]
    /\ PersistFrame

PersistNext ==
    \/ \E g \in Games : GameFinished(g)
    \/ \E g \in Games : HandleResult(g)
    \/ Summary

SpecPersist == PersistInit /\ [][PersistNext]_vars

------------------------------------------------------------------------------
\* The second round of a game, from its night on.  The first day of the game has
\* passed without a reply: nobody spoke, nobody voted, nobody was put up, and the
\* day has closed the record of round 1.  The game was not won at setup, so the
\* Mafia are there and fewer than the others, and nobody is dead.  The count of
\* the replies that are not blank starts with this round.

MidGameRosters ==
    {r \in Rosters :
        LET mafia == Cardinality({p \in DOMAIN r : r[p].role = "Mafia"})
            others == Cardinality({p \in DOMAIN r : r[p].role # "Mafia"})
        IN /\ \A p \in DOMAIN r : r[p].alive
           /\ mafia > 0 /\ mafia < others}

\* The record of a day without a reply, as execute_day_phase appends it
QuietDay(n) ==
    [NewRoundData(n) EXCEPT !.outcome = <<<<"no vote elimination">>>>,
                            !.day_data = TRUE]

RoundInit ==
    /\ cfg \in Configs
    /\ players \in MidGameRosters
    /\ pc = "night_begin"
    /\ round_number = 2
    /\ phase = "night"
    /\ current_round_data = NewRoundData(2)
    /\ rounds_data = <<QuietDay(1)>>
    /\ discussion_history = <<>>
    /\ game_over = FALSE
    /\ winner = "None"
    /\ alive_players = [i \in 1..cfg.players |-> i]
    /\ idx = 1
    /\ mafia_targets = <<>>
    /\ votes = <<>>
    /\ eliminated_player = 0
    /\ last_words = NoLastWords
    /\ confirmation_votes = NoVotes
    /\ probe = NoProbe
    /\ roles = <<>>
    /\ names = <<>>
    /\ executed = <<"day">>
    /\ prompted = <<>>
    /\ vocal = 0

RoundNext ==
    \/ NightBegin
    \/ NightMafiaTurn
    \/ NightTarget
    \/ NightResolve
    \/ CheckGameOver
    \/ DayBegin
    \/ DiscussionTurn
    \/ VotingTurn
    \/ DayTally
    \/ DayResolve
    \/ Finalize

SpecRound == RoundInit /\ [][RoundNext]_vars

------------------------------------------------------------------------------
\* Properties

\* Living players of a role, counted from the roster
Living(r) == Cardinality({p \in DOMAIN players : players[p].role = r /\ players[p].alive})
NonMafiaLiving == Living("Villager") + Living("Doctor")

\* The state right after a night phase, the night's round record still current
AfterNight ==
    pc = "check_before_day" /\ executed # <<>> /\ executed[Len(executed)] = "night"

\* C1: every game runs to its end and returns the winner "Mafia" or "Villagers";
\* no reply makes the game end with an exception instead.
C1_AlwaysAWinner ==
    /\ pc # "aborted"
    /\ pc = "done" => winner \in {"Mafia", "Villagers"}

\* C2: below the round cap, check_game_over returns (True, "Villagers") iff no
\* Mafia lives, (True, "Mafia") iff some Mafia lives and the living Mafia are at
\* least as many as the living Villagers and Doctor, and (False, None) otherwise.
C2_CheckGameOver ==
    (pc \in {"day_begin", "night_begin", "finalize"} /\ round_number < MAX_ROUNDS) =>
        /\ (game_over /\ winner = "Villagers") <=> Living("Mafia") = 0
        /\ (game_over /\ winner = "Mafia") <=>
                (Living("Mafia") > 0 /\ Living("Mafia") >= NonMafiaLiving)
        /\ (~game_over /\ winner = "None") <=>
                (Living("Mafia") > 0 /\ Living("Mafia") < NonMafiaLiving)

\* A night kill has brought the Mafia to parity and the check has named them winner.
C2_Witness ==
    /\ pc = "finalize" /\ round_number < MAX_ROUNDS
    /\ winner = "Mafia" /\ Living("Mafia") = NonMafiaLiving
    /\ current_round_data.eliminations # <<>>

\* A phase is about to run or is running
InPhase ==
    pc \in {"night_begin", "night_mafia", "night_doctor", "day_begin", "day_discussion",
            "day_voting", "day_tally", "day_poll", "day_last_words"}

MafiaParity == Living("Mafia") > 0 /\ Living("Mafia") >= NonMafiaLiving

\* C3: the win check runs after setup and after every phase: no phase begins or
\* runs when no Mafia lives or when the Mafia have reached parity, and once the
\* Mafia have parity the game is past its last phase and the winner is "Mafia".
C3_CheckedBetweenPhases ==
    /\ InPhase => (Living("Mafia") > 0 /\ ~MafiaParity)
    /\ (MafiaParity /\ pc \in {"finalize", "done"}) => (game_over /\ winner = "Mafia")
    /\ MafiaParity => pc \in {"check_before_day", "check_before_night", "finalize", "done"}

\* A night kill brought parity; the check that followed ended the game for the Mafia.
C3_Witness ==
    /\ pc = "finalize" /\ MafiaParity /\ winner = "Mafia"
    /\ executed # <<>> /\ executed[Len(executed)] = "night"
    /\ ~players[current_round_data.eliminations[1]].alive

\* C4: the phases run in the order night, day, night, day, ...: the first phase
\* after setup is a night, and nights and days alternate.
C4_NightThenDay ==
    \A i \in DOMAIN executed : executed[i] = IF i % 2 = 1 THEN "night" ELSE "day"

\* C5: no phase runs once round_number has reached MAX_ROUNDS, and a game that the
\* cap ends without an ordinary win goes to the Villagers if the living Villagers
\* and Doctor outnumber the living Mafia, to the Mafia otherwise.
C5_RoundCap ==
    /\ InPhase => round_number < MAX_ROUNDS
    /\ (/\ pc \in {"finalize", "done"}
        /\ round_number >= MAX_ROUNDS
        /\ Living("Mafia") > 0 /\ ~MafiaParity) =>
            /\ game_over
            /\ winner = IF NonMafiaLiving > Living("Mafia") THEN "Villagers" ELSE "Mafia"

\* The cap has ended a game in which a night was played and Mafia are alive.
C5_Witness ==
    /\ pc = "finalize" /\ round_number = MAX_ROUNDS
    /\ Living("Mafia") > 0 /\ ~MafiaParity
    /\ winner = "Villagers"
    /\ \E i \in DOMAIN executed : executed[i] = "night"

\* The targets with the highest count in the list s of named targets
TopTargets(s) == {x \in Range(s) : \A y \in Range(s) : CountOf(s, y) <= CountOf(s, x)}
\* The position at which x is named first in s
FirstIndex(s, x) == CHOOSE i \in DOMAIN s : s[i] = x /\ \A j \in 1..(i - 1) : s[j] # x
\* The lowest seat of a non-empty set of seats
FirstSeat(S) == CHOOSE x \in S : \A y \in S : x <= y

\* C6 as stated: the night's kill target is the most named target of the valid
\* Mafia actions; of several with the highest count, the one with the lowest seat.
C6_KillTargetBySeatOrder ==
    (AfterNight /\ mafia_targets # <<>>) =>
        current_round_data.targeted_by_mafia = <<FirstSeat(TopTargets(mafia_targets))>>

\* C6 amended: the night's kill target is the most named target of the valid Mafia
\* actions; of several with the highest count, the one that was named first in
\* the order in which the Mafia members acted.
C6_KillTargetBySubmissionOrder ==
    (AfterNight /\ mafia_targets # <<>>) =>
        \E t \in TopTargets(mafia_targets) :
            /\ current_round_data.targeted_by_mafia = <<t>>
            /\ \A u \in TopTargets(mafia_targets) :
                    FirstIndex(mafia_targets, t) <= FirstIndex(mafia_targets, u)

\* Two Mafia named two targets; the first named has the higher seat and is the target.
C6_Witness ==
    /\ AfterNight /\ Len(mafia_targets) = 2
    /\ mafia_targets[1] > mafia_targets[2]
    /\ current_round_data.targeted_by_mafia = <<mafia_targets[1]>>

\* C7: in a night with a kill target, if the Doctor's valid protect action names
\* the target, the target stays alive, nobody is eliminated and the outcome records
\* the protection; otherwise the target dies and is the only one eliminated.
C7_ProtectOrKill ==
    (AfterNight /\ current_round_data.targeted_by_mafia # <<>>) =>
        LET t == current_round_data.targeted_by_mafia[1] IN
        IF current_round_data.protected_by_doctor = <<t>>
        THEN /\ players[t].alive
             /\ current_round_data.eliminations = <<>>
             /\ current_round_data.outcome = <<<<"protected", t>>>>
             /\ \A p \in Range(alive_players) : players[p].alive
        ELSE /\ ~players[t].alive
             /\ current_round_data.eliminations = <<t>>
             /\ current_round_data.outcome = <<<<"killed", t>>>>
             /\ \A p \in Range(alive_players) \ {t} : players[p].alive

\* The Mafia targeted the Doctor, who protected itself and lives.
C7_Witness ==
    /\ AfterNight
    /\ doctor_player # 0
    /\ current_round_data.targeted_by_mafia = <<doctor_player>>
    /\ current_round_data.protected_by_doctor = <<doctor_player>>
    /\ players[doctor_player].alive

\* The Mafia members asked in the night that has just ended
NightMafia == {p \in Range(alive_players) : players[p].role = "Mafia"}

\* C8: an Invalid night action contributes nothing: the kill targets are exactly
\* those of the valid Mafia actions, an Invalid Doctor action protects nobody,
\* and when every Mafia action is Invalid nobody is targeted or eliminated and
\* the game goes on.
C8_InvalidContributesNothing ==
    AfterNight =>
        /\ Len(mafia_targets) =
                Cardinality({p \in NightMafia :
                                Get(current_round_data.actions, p) # <<"Invalid action">>})
        /\ \A i \in DOMAIN mafia_targets :
                \E p \in NightMafia :
                    Get(current_round_data.actions, p) = <<"Kill", mafia_targets[i]>>
        /\ (doctor_player # 0 /\
            Get(current_round_data.actions, doctor_player) = <<"Invalid action">>) =>
                /\ current_round_data.protected_by_doctor = <<>>
                /\ \A p \in Seats : ~players[p].protected
        /\ (\A p \in NightMafia :
                Get(current_round_data.actions, p) = <<"Invalid action">>) =>
                /\ current_round_data.targeted_by_mafia = <<>>
                /\ current_round_data.eliminations = <<>>
                /\ current_round_data.outcome = <<<<"no kill">>>>
                /\ \A p \in Range(alive_players) : players[p].alive
                /\ ~game_over

\* Two Mafia and the Doctor all gave Invalid actions and the night has ended.
C8_Witness ==
    /\ AfterNight
    /\ Cardinality(NightMafia) = 2
    /\ \A p \in NightMafia : Get(current_round_data.actions, p) = <<"Invalid action">>
    /\ doctor_player # 0
    /\ Get(current_round_data.actions, doctor_player) = <<"Invalid action">>
    /\ current_round_data.eliminations = <<>>

\* C9: at the end of the voting sub-round every player living at the start of the
\* day has exactly one recorded vote, so the vote counts add up to the number of
\* living voters, whatever the replies were.
C9_EveryVoterVotes ==
    pc = "day_tally" =>
        /\ Len(VoteTargets) = Len(alive_players)
        /\ \A p \in Range(alive_players) :
                Cardinality({i \in DOMAIN votes : votes[i][1] = p}) = 1

\* C10 as stated: the player put up for elimination has the highest vote count;
\* of several with the highest count, the one with the lowest seat.
C10_PluralityBySeatOrder ==
    pc = "aborted" => eliminated_player = FirstSeat(TopTargets(VoteTargets))

\* C10 amended: the player put up for elimination has the highest vote count; of
\* several with the highest count, the one who received a vote first in the
\* order in which the votes were cast.
C10_PluralityByVoteOrder ==
    pc = "aborted" =>
        /\ eliminated_player \in TopTargets(VoteTargets)
        /\ \A u \in TopTargets(VoteTargets) :
                FirstIndex(VoteTargets, eliminated_player) <= FirstIndex(VoteTargets, u)

\* Two votes for two players; the first vote went to the higher seat, who is put up.
C10_Witness ==
    /\ pc = "aborted" /\ Len(votes) = 2
    /\ votes[1][2] > votes[2][2]
    /\ eliminated_player = votes[1][2]

\* The number of entries of the list s that are equal to x
Occurrences(s, x) == Cardinality({i \in DOMAIN s : s[i] = x})

\* C11: every recorded day vote names a living player other than the voter, and
\* every reply that reaches the vote handling leaves exactly one recorded vote:
\* a refused parse is replaced by a drawn target, not dropped.
C11_RecordedVotesValid ==
    pc \in {"day_voting", "day_tally", "day_poll", "aborted"} =>
        /\ \A i \in DOMAIN votes :
                /\ votes[i][2] \in Range(alive_players)
                /\ players[votes[i][2]].alive
                /\ votes[i][2] # votes[i][1]
                /\ \A j \in DOMAIN votes : votes[j][1] = votes[i][1] => j = i
        /\ Len(votes) = Occurrences(current_round_data.messages, "day_voting")

\* A Mafia member with an action entry from the night gave a voting reply whose
\* parse was refused: its entry has been overwritten by the vote for a drawn target.
C11_Witness ==
    /\ pc = "day_tally"
    /\ Occurrences(current_round_data.messages, "night") > 0
    /\ \E i \in DOMAIN votes :
            /\ players[votes[i][1]].role = "Mafia"
            /\ Get(current_round_data.actions, votes[i][1]) = <<"Vote", votes[i][2]>>

\* The player the confirmation poll of the day just executed was about (0: no
\* poll): the poll raised, or the day ended with its rejection or its confirmation.
Polled ==
    IF pc = "aborted" THEN eliminated_player
    ELSE IF pc = "check_before_night" /\ rounds_data # <<>>
    THEN LET outcome == rounds_data[Len(rounds_data)].outcome
             last == IF outcome = <<>> THEN <<"none">> ELSE outcome[Len(outcome)]
         IN IF last[1] \in {"rejected", "eliminated by vote"} THEN last[2] ELSE 0
    ELSE 0

\* The players entitled to vote in that poll: the living ones but the accused
PollVoters == {p \in Range(alive_players) : p # Polled}

\* The poll ended with the elimination of the accused
PollConfirmed ==
    /\ pc = "check_before_night"
    /\ rounds_data[Len(rounds_data)].eliminated_by_vote = <<Polled>>

\* C12: a confirmation poll counts every living player other than the accused
\* exactly once, as agree or as disagree, and confirms the elimination iff twice
\* the number of agree votes exceeds the number of voters.
C12_PollByStrictMajority ==
    Polled # 0 =>
        /\ \A i \in DOMAIN confirmation_votes.agree :
                \E p \in PollVoters : confirmation_votes.agree[i] = model_name(p)
        /\ \A i \in DOMAIN confirmation_votes.disagree :
                \E p \in PollVoters : confirmation_votes.disagree[i] = model_name(p)
        /\ Len(confirmation_votes.agree) + Len(confirmation_votes.disagree)
                = Cardinality(PollVoters)
        /\ PollConfirmed <=>
                2 * Len(confirmation_votes.agree) > Cardinality(PollVoters)

\* The steps of execute_day_phase
DaySteps == {"day_begin", "day_discussion", "day_voting", "day_tally", "day_poll",
             "day_last_words"}

\* C13: a step of a day phase clears the alive flag of a player only if that player
\* has the most votes of the day and more than half of the other living players,
\* each counted once, have agreed in the confirmation poll; the record of a day
\* names a player as eliminated by vote only with that outcome, and none when the
\* poll rejected.
C13_EliminationOnlyOnConfirmation ==
    /\ [][(pc \in DaySteps) =>
            (\A p \in DOMAIN players :
                (players[p].alive /\ ~players'[p].alive) =>
                    /\ p = MostVoted(VoteTargets, alive_players)
                    /\ 2 * Len(confirmation_votes.agree)
                            > Cardinality(Range(alive_players) \ {p})
                    /\ Len(confirmation_votes.agree) + Len(confirmation_votes.disagree)
                            = Cardinality(Range(alive_players) \ {p}))]_vars
    /\ [](\A i \in DOMAIN rounds_data :
            LET r == rounds_data[i]
            IN /\ r.eliminated_by_vote # <<>> =>
                    \E j \in DOMAIN r.outcome :
                        r.outcome[j] = <<"eliminated by vote", r.eliminated_by_vote[1]>>
               /\ (\E j \in DOMAIN r.outcome : r.outcome[j][1] = "rejected") =>
                    r.eliminated_by_vote = <<>>)

\* A player was put up, the first voter of the poll was asked, and every player
\* who was alive at the start of the day still is.
C13_Witness ==
    /\ eliminated_player # 0
    /\ \E i \in DOMAIN prompted : prompted[i][2] = "confirmation"
    /\ \A p \in Range(alive_players) : players[p].alive
    /\ current_round_data.eliminated_by_vote = <<>>

\* C14: a confirmation voter whose reply is neither an agreement nor a
\* disagreement is counted as disagree; as no reply of a poll is recognisable
\* here, every voter of a poll is counted as disagree and the poll rejects.
C14_UnrecognisedCountsAsDisagree ==
    Polled # 0 =>
        /\ Len(confirmation_votes.disagree) = Cardinality(PollVoters)
        /\ \A i \in DOMAIN confirmation_votes.disagree :
                \E p \in PollVoters : confirmation_votes.disagree[i] = model_name(p)
        /\ confirmation_votes.agree = <<>>
        /\ ~PollConfirmed

\* A token without its trailing punctuation
Trimmed(s) ==
    LET n == CHOOSE k \in 0..Len(s) :
                /\ \A i \in (k + 1)..Len(s) : s[i] \in {".", ":", ",", ";"}
                /\ k > 0 => s[k] \notin {".", ":", ",", ";"}
    IN SubSeq(s, 1, n)

\* The players whose name is the token of the last extractor call, trailing
\* punctuation and case left aside
NamedByToken == {p \in Seats : lower(player_name(p)) = lower(Trimmed(probe.token))}

\* The players the last extractor call may return: the living ones, without the
\* actor for a kill and for a vote, without the Mafia for a kill, none for a
\* night action of a Villager
Eligible ==
    {p \in Seats :
        /\ players[p].alive
        /\ probe.call = "parse_day_vote" => p # probe.self
        /\ probe.call = "parse_night_action" =>
                /\ players[probe.self].role # "Villager"
                /\ players[probe.self].role = "Mafia" =>
                        (p # probe.self /\ players[p].role # "Mafia")}

\* C15: parse_night_action and parse_day_vote return either no target or the
\* player the reply names, and never a dead player, never the actor itself for a
\* kill or a vote, never a Mafia member for a kill.
C15_ExtractedTargetEligible ==
    probe.call # "none" =>
        \/ probe.target = 0
        \/ /\ probe.target \in NamedByToken
           /\ players[probe.target].alive
           /\ (probe.call = "parse_day_vote" \/ players[probe.self].role = "Mafia") =>
                    probe.target # probe.self
           /\ (probe.call = "parse_night_action" /\ players[probe.self].role = "Mafia") =>
                    players[probe.target].role # "Mafia"

\* A voter wrote its own name after "VOTE:" and parse_day_vote returned no target.
C15_Witness ==
    /\ probe.call = "parse_day_vote"
    /\ probe.token = player_name(probe.self)
    /\ probe.target = 0

\* C16: an extractor returns a player exactly when the captured token, its
\* trailing punctuation trimmed, is that player's name in any case (and the
\* player may be targeted); this holds for kill, protect and vote alike.
C16_TrimmedTokenIsName ==
    probe.call # "none" =>
        /\ probe.target # 0 => probe.target \in NamedByToken
        /\ \A p \in NamedByToken \cap Eligible : probe.target = p

\* C17: setup_game creates exactly PLAYERS_PER_GAME players, MAFIA_COUNT of them
\* Mafia, DOCTOR_COUNT Doctor, the others Villager, and gives no name twice, also
\* when the pool of names has fewer names than there are seats.
C17_SetupCountsAndNames ==
    /\ \A i, j \in DOMAIN names : names[i] = names[j] => i = j
    /\ pc = "setup_done" =>
        /\ Len(players) = cfg.players /\ Len(names) = cfg.players
        /\ Cardinality({p \in DOMAIN players : players[p].role = "Mafia"}) = cfg.mafia
        /\ Cardinality({p \in DOMAIN players : players[p].role = "Doctor"}) = cfg.doctor
        /\ Cardinality({p \in DOMAIN players : players[p].role = "Villager"})
                = cfg.players - cfg.mafia - cfg.doctor

\* A setup with two Mafia and a Doctor in which the pool ran out of names at the
\* last seat.
C17_Witness ==
    /\ pc = "setup_done"
    /\ cfg.mafia = 2 /\ cfg.doctor = 1
    /\ cfg.players > PoolSize
    /\ names[Len(names)] = <<"Player_", cfg.players>>
    /\ \A i \in 1..PoolSize : names[i] \in NamePool
    /\ phase = "night" /\ round_number = 1

\* C18: after setup the roster keeps its players, every player keeps the role given
\* at setup, and a player who is no longer alive never becomes alive again.
C18_RosterFixedDeadStayDead ==
    [][pc # "setup" =>
        /\ DOMAIN players' = DOMAIN players
        /\ \A p \in DOMAIN players :
            /\ players'[p].role = players[p].role
            /\ ~players[p].alive => ~players'[p].alive]_vars

\* A day is under way while the player killed in the night before it is in the
\* roster, dead, with the role of the setup.
C18_Witness ==
    /\ pc = "day_voting" /\ round_number = 2
    /\ Len(players) = cfg.players
    /\ \E p \in Seats :
        /\ ~players[p].alive /\ players[p].role = "Doctor"
        /\ current_round_data.eliminations = <<p>>

\* The day phases that have run to their end.
CompletedDays ==
    Occurrences(executed, "day")
        - (IF pc \in {"day_discussion", "day_voting", "day_tally", "day_poll",
                      "day_last_words", "aborted"} THEN 1 ELSE 0)

\* C19: a record enters the round history only when a day phase completes: the
\* history has as many records as day phases have completed, in the order of their
\* rounds, and a record holding the data of a night holds the data of the day after it.
C19_OneRecordPerCompletedDay ==
    pc # "setup" =>
        /\ Len(rounds_data) = CompletedDays
        /\ \A k \in DOMAIN rounds_data :
            /\ rounds_data[k].round_number = k
            /\ rounds_data[k].targeted_by_mafia # <<>> =>
                    \E m \in DOMAIN rounds_data[k].messages :
                        rounds_data[k].messages[m] \in {"day_discussion", "day_voting"}

\* C20: round_number is 1 when setup_game has returned, no step of a night phase
\* changes it, the step that ends a day phase adds exactly 1 to it, and no other
\* step changes it: it is one more than the number of completed day phases.
C20_RoundNumberCountsDays ==
    [][/\ (pc = "setup" /\ pc' # "setup") => round_number' = 1
       /\ pc \in {"night_begin", "night_mafia", "night_doctor"} =>
                round_number' = round_number
       /\ (pc \in {"day_tally", "day_poll", "day_last_words"}
                /\ pc' = "check_before_night") =>
                round_number' = round_number + 1
       /\ pc # "setup" =>
            /\ round_number' >= round_number
            /\ round_number' # round_number => pc' = "check_before_night"
       /\ pc' # "setup" => round_number' = 1 + CompletedDays']_vars

\* The night after the first day has run: the day, in which nobody was eliminated,
\* made the round 2 and the night left it at 2.
C20_Witness ==
    /\ pc = "check_before_day"
    /\ executed = <<"day", "night">>
    /\ rounds_data[1].eliminated_by_vote = <<>>
    /\ current_round_data.targeted_by_mafia # <<>>
    /\ round_number = 2

\* The players who were alive when the night whose record is current began
NightLiving == {p \in Seats : players[p].alive} \cup Range(current_round_data.eliminations)

\* The prompts of a night: the living Mafia in their order, then the living Doctor
NightPrompts ==
    LET m == SelectSeq(mafia_players, LAMBDA p : p \in NightLiving)
    IN [i \in DOMAIN m |-> <<m[i], "night">>]
        \o (IF doctor_player # 0 /\ doctor_player \in NightLiving
            THEN << <<doctor_player, "night">> >> ELSE <<>>)

\* C21: a night asks every living Mafia member once and the Doctor once if there
\* is a living one, nobody else and nobody twice; no prompt of a night, a
\* discussion, a vote or a confirmation poll goes to a player who is not alive.
C21_OnlyTheLivingAreAsked ==
    /\ [](AfterNight => prompted = NightPrompts)
    /\ [][\A i \in (Len(prompted) + 1)..Len(prompted') :
            players[prompted'[i][1]].alive]_vars

\* The second night of a game has ended; the Doctor was killed in the first
\* night: in the second the living Mafia members were asked, each once, the dead
\* Doctor was not asked, and in the day between the two nights the Doctor was
\* asked for nothing.
C21_Witness ==
    /\ AfterNight
    /\ executed = <<"day", "night", "day", "night">>
    /\ doctor_player # 0 /\ ~players[doctor_player].alive
    /\ rounds_data[Len(rounds_data)].eliminations = <<doctor_player>>
    /\ doctor_player \notin Range(alive_players)
    /\ prompted = [i \in DOMAIN mafia_players |-> <<mafia_players[i], "night">>]
    /\ prompted # <<>>

\* The prompts of the day phase under way, in the order they were made
DayPrompts == SelectSeq(prompted, LAMBDA e : e[2] \in {"day_discussion", "day_voting"})

\* The prompts of a sub-round to the first n of the living players, in seat order
SubRound(kind, n) == [i \in 1..n |-> <<alive_players[i], kind>>]

\* C22: in a day phase the discussion sub-round runs over all living players in
\* seat order before the voting sub-round starts, no vote is recorded during the
\* discussion, and the votes are counted only after every living player has had
\* the voting turn.
C22_DiscussionThenVotingThenTally ==
    /\ pc = "day_discussion" =>
        /\ DayPrompts = SubRound("day_discussion", idx - 1)
        /\ votes = <<>>
        /\ \A p \in DOMAIN current_round_data.actions :
                current_round_data.actions[p][1] # "Vote"
    /\ pc = "day_voting" =>
        DayPrompts = SubRound("day_discussion", Len(alive_players))
                        \o SubRound("day_voting", idx - 1)
    /\ pc \in {"day_discussion", "day_voting", "day_tally"} =>
        current_round_data.vote_counts = <<>>
    /\ pc \in {"day_tally", "day_poll", "aborted"} =>
        DayPrompts = SubRound("day_discussion", Len(alive_players))
                        \o SubRound("day_voting", Len(alive_players))

\* The votes of the day after a night kill are about to be counted: both
\* sub-rounds are over and a vote was recorded.
C22_Witness ==
    /\ pc = "day_tally" /\ round_number = 2
    /\ Len(alive_players) = cfg.players - 1
    /\ Len(DayPrompts) = 2 * Len(alive_players)
    /\ Len(votes) = 1

\* The sanitizer has returned
Sanitized == pc \in {"sanitized", "sanitized_twice"}

\* C23: sanitizing the output of the sanitizer once more, with the same speaker,
\* names and phase, gives that output again.
C23_SanitizerIdempotent ==
    pc = "sanitized_twice" => probe.again = probe.result

\* The labels "<Name>:" of the active players other than the speaker
ForeignLabels ==
    {label(probe.args.list_active_names[i]) :
        i \in {k \in DOMAIN probe.args.list_active_names :
                probe.args.list_active_names[k] # probe.args.cur_player_name}}

\* C24: no line of the sanitizer's output starts, after optional blanks, with the
\* label "<Name>:" of a living player other than the speaker.
C24_NoForeignLeadingLabel ==
    Sanitized =>
        \A i \in DOMAIN probe.result :
            probe.result[i] \in ForeignLabels =>
                \E j \in LineStart(probe.result, i)..(i - 1) : probe.result[j] # " "

\* The input up to the first piece of K, the whole input if there is none
Before(text, K) ==
    LET hits == Positions(text, K)
    IN IF hits = <<>> THEN text ELSE Slice(text, 1, hits[1] - 1)

\* The text that reaches the cut at the keywords: the input after steps 1 and 2
BeforeKeywordCut ==
    cut_your_response(cut_foreign_label(probe.args.response.val,
                        probe.args.cur_player_name, probe.args.list_active_names))

\* C25: the output for a discussion holds none of ACTION:, VOTE:, kill and protect,
\* all that stood from the first of them on being deleted; the output for a night
\* holds no VOTE: and nothing of what followed the first VOTE:.
C25_IntentKeywordsCut ==
    (Sanitized /\ probe.args.response.type = "str") =>
        LET cut == strip(cut_keywords(BeforeKeywordCut, probe.args.phase_type)) IN
        /\ probe.args.phase_type = "day_discussion" =>
            /\ Positions(probe.result, {"ACTION:", "VOTE:", "kill", "protect"}) = <<>>
            /\ cut = strip(Before(BeforeKeywordCut, {"ACTION:", "VOTE:", "kill", "protect"}))
        /\ probe.args.phase_type = "night" =>
            /\ Positions(probe.result, {"VOTE:"}) = <<>>
            /\ cut = strip(Before(BeforeKeywordCut, {"VOTE:"}))

\* The cut at the marker as the claim states it: with two markers or more what
\* follows the line of the second; with one marker every line but the marker's
MarkerCutClaimed(response) ==
    LET yr_matches == Positions(response, {"your response"})
    IN IF yr_matches = <<>> THEN response
       ELSE IF Len(yr_matches) >= 2
       THEN Slice(response, LineEnd(response, yr_matches[2]) + 1, Len(response))
       ELSE Slice(response, 1, LineStart(response, yr_matches[1]) - 1)
                \o Slice(response, LineEnd(response, yr_matches[1]) + 1, Len(response))

\* C26: the cut at "your response" keeps, with two occurrences or more, only what
\* follows the line of the second occurrence, nothing of that line, and deletes,
\* with one occurrence, the line that holds it and no other line.
C26_MarkerCut ==
    (Sanitized /\ probe.args.response.type = "str") =>
        LET r1 == cut_foreign_label(probe.args.response.val, probe.args.cur_player_name,
                                    probe.args.list_active_names)
        IN cut_your_response(r1) = MarkerCutClaimed(r1)

\* C27: for an empty input and for an input that is not text the sanitizer returns
\* the empty string and raises nothing, whatever the name, the names and the phase.
C27_EmptyForNonText ==
    (Sanitized /\ (probe.args.response \in NonText \/ probe.args.response = str(<<>>))) =>
        probe.result = <<>>

\* The sanitizer was called with a list that is not empty, for a discussion.
C27_Witness ==
    /\ pc = "sanitized"
    /\ probe.args.response = [type |-> "list", val |-> <<"x">>]
    /\ probe.args.phase_type = "day_discussion"
    /\ probe.args.list_active_names = <<"Aab", "Aba">>
    /\ probe.result = <<>>

\* The phase name the engine passes to the sanitizer at the place of the call
PhaseOfCall ==
    IF probe.call = "execute_night_phase" THEN "night"
    ELSE IF probe.call = "get_confirmation_vote" THEN "confirmation"
    ELSE probe.call

\* C28: what is handed to parse_night_action, parse_day_vote or the agree/disagree
\* match, and every text of an agent stored in the round record or the discussion
\* history, is the sanitizer's output for the reply Player.get_response fetched;
\* so are the last words a round record stores.
C28_SanitizedBeforeUse ==
    pc = "replied" =>
        LET clean == sanitize_model_response(str(get_response(probe.raw)), "Aab",
                                             <<"Aab", "Aba">>, PhaseOfCall)
            clean_words == sanitize_model_response(str(get_response(probe.words)), "Aba",
                                                   <<"Aab", "Aba">>, "day_discussion")
        IN IF probe.call = "get_last_words"
           THEN \A i \in DOMAIN probe.stored : probe.stored[i] = clean_words
           ELSE /\ \A i \in DOMAIN probe.stored : probe.stored[i] = clean
                /\ \A i \in DOMAIN probe.handed : probe.handed[i] = clean

\* A reply of the night or of the voting that the sanitizer has changed
\* was stored, and handed on, in the changed form.
C28_Witness ==
    /\ pc = "replied"
    /\ probe.call \in {"execute_night_phase", "day_voting"}
    /\ probe.stored # <<>>
    /\ probe.handed # <<>>
    /\ probe.stored[1] # get_response(probe.raw)

------------------------------------------------------------------------------
Next ==
    \/ setup_game
    \/ CheckGameOver
    \/ Finalize
    \/ NightBegin
    \/ NightMafiaTurn
    \/ NightTarget
    \/ NightResolve
    \/ DayBegin
    \/ DiscussionTurn
    \/ VotingTurn
    \/ DayTally
    \/ DayResolve

Spec == Init /\ [][Next]_vars
(***************************************************************************)
(* C30: a game whose configuration cannot be seated is refused at its      *)
(* construction or setup: it never leaves the setup phase and run_game     *)
(* never returns a winner for it.                                          *)
(***************************************************************************)
C30_UnseatableRejected ==
    cfg \in Unseatable =>
        /\ phase = "setup"
        /\ winner = "None"
        /\ pc # "done"

(***************************************************************************)
(* C32: the discussion history that goes into the prompts holds replies    *)
(* of the day only: every entry was appended by a discussion or voting     *)
(* turn, and no step of a night phase changes the history.                 *)
(***************************************************************************)
NightSteps == {"night_begin", "night_mafia", "night_doctor"}

C32_NoNightReplyInHistory ==
    /\ [](\A i \in DOMAIN discussion_history :
            discussion_history[i] \in {"day_discussion", "day_voting"})
    /\ [][(pc \in NightSteps) => (discussion_history' = discussion_history)]_vars

\* A night reply is in the round record and the day after it has added a reply
\* to the history.
C32_Witness ==
    /\ \E i \in DOMAIN current_round_data.messages :
            current_round_data.messages[i] = "night"
    /\ \E p \in DOMAIN current_round_data.actions :
            current_round_data.actions[p][1] = "Kill"
    /\ discussion_history = <<"day_discussion">>

(***************************************************************************)
(* C33: last words are requested only from the player whose elimination    *)
(* the confirmation poll has confirmed, while that player is still alive,  *)
(* and at most once in a day; none are requested when the poll did not     *)
(* confirm, and none in a day without a plurality.                         *)
(***************************************************************************)
C33_LastWordsOnlyOnConfirmation ==
    /\ [](last_words.player # 0 =>
            /\ last_words.alive
            /\ last_words.player = eliminated_player
            /\ 2 * Len(confirmation_votes.agree)
                    > Cardinality(Range(alive_players) \ {last_words.player}))
    /\ []((Polled # 0 /\ ~PollConfirmed) => last_words.player = 0)
    /\ []((pc = "check_before_night" /\ Polled = 0) => last_words.player = 0)
    /\ [][(last_words' # last_words) =>
            (last_words.player = 0 \/ last_words'.player = 0)]_vars

\* A player was put up and the poll did not confirm the elimination: nobody was
\* asked for last words.
C33_Witness ==
    /\ Polled # 0
    /\ ~PollConfirmed
    /\ last_words.player = 0
    /\ eliminated_player = Polled

(***************************************************************************)
(* C34: the phase field names the phase being executed: "night" in every   *)
(* step of execute_night_phase, "day" in every step of execute_day_phase,  *)
(* the first phase after setup included.                                   *)
(***************************************************************************)
C34_PhaseFieldNamesThePhase ==
    /\ pc \in {"night_mafia", "night_doctor"} => phase = "night"
    /\ pc \in {"day_discussion", "day_voting", "day_tally", "day_poll"} => phase = "day"

(***************************************************************************)
(* C35: a check that reaches the branch of the round cap (Mafia alive and  *)
(* fewer than the living Villagers and Doctor, round_number at MAX_ROUNDS) *)
(* returns "Villagers": the game the cap ends is won by the Villagers.     *)
(***************************************************************************)
CapBranchReached ==
    /\ mafia_alive # 0
    /\ ~(mafia_alive >= villagers_alive + doctor_alive)
    /\ round_number >= MAX_ROUNDS

C35_CapGoesToVillagers ==
    /\ (pc \in {"check_before_day", "check_before_night"} /\ CapBranchReached) =>
            check_game_over = <<TRUE, "Villagers">>
    /\ (pc = "finalize" /\ CapBranchReached) => (game_over /\ winner = "Villagers")

\* The cap has ended a game in which the living Villagers alone do not outnumber
\* the Mafia.
C35_Witness ==
    /\ pc = "finalize" /\ CapBranchReached
    /\ villagers_alive <= mafia_alive
    /\ winner = "Villagers"
    /\ executed = <<"day", "night", "day", "night", "day">>

(***************************************************************************)
(* C36: a phase starts with at least three living players, at least one of *)
(* them Mafia and more of them not Mafia than Mafia; so every voter of a   *)
(* voting sub-round has a living player other than itself to fall back on, *)
(* and a confirmation poll has at least two voters.                        *)
(***************************************************************************)
C36_PhaseStartsWithAMajority ==
    /\ pc \in {"night_begin", "day_begin"} =>
            /\ Living("Mafia") >= 1
            /\ NonMafiaLiving > Living("Mafia")
            /\ Living("Mafia") + NonMafiaLiving >= 3
    /\ pc = "day_voting" =>
            \A voter \in Range(alive_players) :
                \E p \in Range(alive_players) : p # voter /\ players[p].alive
    /\ Polled # 0 => Cardinality(PollVoters) >= 2

\* A day after the night kill has left four players alive; the three others were
\* the voters of the poll on the fourth.
C36_Witness ==
    /\ pc = "aborted"
    /\ executed = <<"day", "night", "day">>
    /\ Len(alive_players) = cfg.players - 1
    /\ Living("Mafia") = 1
    /\ Cardinality(PollVoters) = Len(alive_players) - 1
    /\ current_round_data.eliminations # <<>>

(***************************************************************************)
(* C37: the bookkeeping of eliminations is exact.  A round record names at *)
(* most one player eliminated by vote and at most one killed at night, and *)
(* whoever is named in eliminated_by_vote is named in eliminations of the  *)
(* same record; when run_game returns, the eliminations of the returned    *)
(* records name every dead player once and nobody else.                    *)
(***************************************************************************)
RECURSIVE AllEliminations(_)
AllEliminations(records) ==
    IF records = <<>> THEN <<>>
    ELSE AllEliminations(SubSeq(records, 1, Len(records) - 1))
            \o records[Len(records)].eliminations

RecordExact(data) ==
    /\ Len(data.eliminated_by_vote) <= 1
    /\ Range(data.eliminated_by_vote) \subseteq Range(data.eliminations)
    /\ Cardinality(Range(data.eliminations) \ Range(data.eliminated_by_vote)) <= 1
    /\ Len(data.eliminations) = Cardinality(Range(data.eliminations))

C37_EliminationsAreExact ==
    /\ RecordExact(current_round_data)
    /\ \A i \in DOMAIN rounds_data : RecordExact(rounds_data[i])
    /\ pc = "done" =>
            LET listed == AllEliminations(rounds_data)
            IN /\ Len(listed) = Cardinality(Range(listed))
               /\ Range(listed) = {p \in DOMAIN players : ~players[p].alive}

\* run_game has returned after a night kill that ended the game: the record of
\* that night is the last of the returned records.
C37_Witness ==
    /\ pc = "done"
    /\ Len(rounds_data) = 2
    /\ Len(rounds_data[2].eliminations) = 1
    /\ ~players[rounds_data[2].eliminations[1]].alive
    /\ Cardinality({p \in DOMAIN players : ~players[p].alive}) = 1

(***************************************************************************)
(* C38: the round history run_game returns holds the records of the rounds *)
(* 1, 2, ..., k in this order, none missing and none twice, whether the    *)
(* game ended after setup, after a night or after a day.                   *)
(***************************************************************************)
C38_RoundsNumberedInOrder ==
    /\ pc \notin {"setup", "done"} =>
            current_round_data.round_number = Len(rounds_data) + 1
    /\ pc = "done" =>
            /\ rounds_data # <<>>
            /\ \A k \in DOMAIN rounds_data : rounds_data[k].round_number = k
            /\ Len(rounds_data) = current_round_data.round_number

\* The cap has ended the game after its last day: the returned history ends with
\* the record opened by that day's end.
C38_Witness ==
    /\ pc = "done"
    /\ Len(rounds_data) = MAX_ROUNDS
    /\ rounds_data[MAX_ROUNDS].round_number = MAX_ROUNDS
    /\ rounds_data[MAX_ROUNDS].messages = <<>>
    /\ executed[Len(executed)] = "day"

(***************************************************************************)
(* C39: when the voting sub-round is over, the actions of the round record *)
(* hold the entry "Vote <target>" for every player whose vote is in votes, *)
(* naming the target of that vote, also for a Mafia member or a Doctor who *)
(* has an entry from the night of the same round.                          *)
(***************************************************************************)
C39_EveryVoteHasItsEntry ==
    pc = "day_tally" =>
        \A i \in DOMAIN votes :
            Get(current_round_data.actions, votes[i][1]) = <<"Vote", votes[i][2]>>

\* C40: the confirmation vote of a player is "agree" exactly when the sanitized
\* reply matches the agree pattern, also when it matches the disagree pattern as
\* well, and "disagree" for every other reply: the call returns one of the two.
C40_AgreeWinsTheMatch ==
    (pc = "replied" /\ probe.call = "get_confirmation_vote") =>
        /\ ~probe.raised
        /\ probe.handed =
             <<confirmation_match(sanitize_model_response(str(get_response(probe.raw)), "Aab", <<>>,
                                                          "confirmation"))>>

====
